---- MODULE Spec2Model ----
(***************************************************************************)
(* Stays sync pipeline: the sync state tracker (SyncStatus singleton), the *)
(* trigger paths (cron tick, POST /sync/trigger, runInitialSync), the      *)
(* booking pipeline syncStaysData with its upsert writers, the property    *)
(* pipeline syncPropertiesData, client enrichment and the team/feedback    *)
(* writers that share the unified-bookings collection.                     *)
(***************************************************************************)
EXTENDS Integers, Sequences, FiniteSets, TLC

VARIABLES
    build,               \* which SyncService revision is deployed
    now,                 \* the wall clock read by new Date() / Date.now()
    syncStatus,          \* syncStatus collection, document _id 'current'
    propertySyncStatus,  \* propertySyncStatus collection, document _id 'current'
    listings,            \* listings collection (set of documents)
    reservations,        \* reservations collection (set of documents)
    unifiedBookings,     \* unifiedBookings collection (set of documents)
    properties,          \* properties collection (set of documents)
    proc,                \* per handler invocation: position and locals
    hist,                \* observations of the run (not program state)
    calc                 \* the one call of a function, paged read or queue that
                         \* a behaviour of SpecCalc, SpecQuery, SpecPaging or
                         \* SpecQueue follows: its input, locals and result

vars == <<build, now, syncStatus, propertySyncStatus, listings, reservations,
          unifiedBookings, properties, proc, hist, calc>>

-----------------------------------------------------------------------------
(* Bounds of the model *)

MaxClock == 2

(* null / undefined of a string-valued field, and of a number- or Date-valued field *)
Null == "null"
NoNum == 0 - 1

Builds == {"legacy", "current"}

ResIds == {"r1", "r2"}
ListingIds == {"L1", "L2"}
ClientIds == {"c1"}
UserIds == {"u1"}
Ratings == {5}

-----------------------------------------------------------------------------
(* Documents are functions from field names to values; a field that was    *)
(* never set is outside the domain.                                        *)

Has(doc, f) == f \in DOMAIN doc

(* A variant that replaces the document (replaceOne) instead of $set *)
ReplaceDocument(doc, s) == s @@ [_id |-> doc._id]

(* MongoDB $set: the fields of s overwrite, every other field of doc stays *)
SetFields(doc, s) == s @@ doc

(* A variant of the upsert that applies $setOnInsert on every write *)
UpsertStampingCreatedAt(coll, id, set, onInsert) ==
    IF \E d \in coll : d._id = id
    THEN {IF d._id = id THEN (set @@ onInsert) @@ d ELSE d : d \in coll}
    ELSE coll \cup {set @@ onInsert @@ [_id |-> id]}

(* updateOne(filter {_id: id}, {$set, $setOnInsert}, {upsert: true}) *)
UpsertById(coll, id, set, onInsert) ==
    IF \E d \in coll : d._id = id
    THEN {IF d._id = id THEN SetFields(d, set) ELSE d : d \in coll}
    ELSE coll \cup {set @@ onInsert @@ [_id |-> id]}

(* updateOne(filter, {$set}) without upsert: no matching document, no effect *)
UpdateWhere(coll, Matches(_), set) ==
    IF \E d \in coll : Matches(d)
    THEN LET first == CHOOSE d \in coll : Matches(d)
         IN  (coll \ {first}) \cup {SetFields(first, set)}
    ELSE coll

DocById(coll, id) == CHOOSE d \in coll : d._id = id
IdsOf(coll) == {d._id : d \in coll}

-----------------------------------------------------------------------------
(* Remote records (StaysBooking, ListingDetails, StaysClient).  A field the *)
(* remote omits is Null (strings) or NoNum (numbers).                       *)

NoPrice ==
    [present |-> FALSE, _f_total |-> NoNum, _f_expected |-> NoNum,
     hosting_f_total |-> NoNum, extras_f_total |-> NoNum,
     value |-> NoNum, cleaning |-> NoNum, extras |-> NoNum, currency |-> Null]

NoStats ==
    [adults |-> NoNum, children |-> NoNum, babies |-> NoNum, nights |-> NoNum,
     _f_totalPaid |-> NoNum]

NoGuestsDetails == [present |-> FALSE, name |-> Null, list |-> << >>]

(* GET /booking/reservations/{id}: the full record of a reservation *)
BookingDetail(id) ==
    IF id = "r1"
    THEN [_id |-> "r1", id |-> "FA01J", _idlisting |-> "L1", _idclient |-> "c1",
          type |-> "normal", status |-> "confirmed", creationDate |-> "2024-05-20",
          checkInDate |-> 1, checkInTime |-> "15:00",
          checkOutDate |-> 4, checkOutTime |-> "11:00", guests |-> 2,
          stats |-> [NoStats EXCEPT !.adults = 2, !.nights = 3],
          price |-> [NoPrice EXCEPT !.present = TRUE, !._f_total = 900,
                                    !.value = 100, !.currency = "BRL"],
          guestsDetails |-> [present |-> TRUE, name |-> " Maria Silva ",
                             list |-> <<[name |-> "adult_0", primary |-> TRUE]>>],
          partnerName |-> "API airbnb", source |-> Null, channelName |-> Null]
    ELSE [_id |-> id, id |-> "BL02K", _idlisting |-> "L1", _idclient |-> Null,
          type |-> "blocked", status |-> Null, creationDate |-> Null,
          checkInDate |-> 5, checkInTime |-> Null,
          checkOutDate |-> 6, checkOutTime |-> Null, guests |-> NoNum,
          stats |-> NoStats, price |-> NoPrice,
          guestsDetails |-> NoGuestsDetails,
          partnerName |-> Null, source |-> Null, channelName |-> Null]

(* GET /booking/reservations (list): the same reservation without the guest *)
(* block and the partner block, which only the detail endpoint returns      *)
BookingSummary(id) ==
    [BookingDetail(id) EXCEPT !.guestsDetails = NoGuestsDetails,
                              !.partnerName = Null]

(* GET /content/listings/{id} *)
ListingDetail(l) ==
    [_id |-> l, id |-> l, internalName |-> "I-VP-455-503", name |-> "Flat 503",
     address |-> Null]

(* GET /booking/clients/{id} *)
ClientDetail(c) ==
    [_id |-> c, country |-> "BR", language |-> "pt", nationality |-> "BR",
     email |-> "maria@example.com", phone |-> Null]

(* The pages of the remote list a run can be given *)
RemoteLists == {{}, {"r1"}, {"r1", "r2"}}

-----------------------------------------------------------------------------
(* JavaScript value helpers *)

(* x || d for a string or null *)
OrStr(x, d) == IF x = Null THEN d ELSE x
(* x || d for a number or undefined: 0 is falsy too *)
OrNum(x, d) == IF x = NoNum \/ x = 0 THEN d ELSE x

(* String.prototype.trim on the strings of the model *)
trim(s) ==
    CASE s = " Maria Silva " -> "Maria Silva"
      [] s = " maria silva " -> "maria silva"
      [] s = "   " -> ""
      [] s = " Adult_7 " -> "Adult_7"
      [] s = " adult_7 " -> "adult_7"
      [] s = " Hóspede " -> "Hóspede"
      [] s = " hóspede " -> "hóspede"
      [] OTHER -> s

(* String.prototype.toLowerCase on the strings of the model *)
toLowerCase(s) ==
    CASE s = "Maria Silva" -> "maria silva"
      [] s = " Maria Silva " -> " maria silva "
      [] s = "API airbnb" -> "api airbnb"
      [] s = "Guest" -> "guest"
      [] s = "GUEST" -> "guest"
      [] s = " Adult_7 " -> " adult_7 "
      [] s = "Adult_7" -> "adult_7"
      [] s = " Hóspede " -> " hóspede "
      [] s = "Hóspede" -> "hóspede"
      [] s = "Ana Souza" -> "ana souza"
      [] OTHER -> s

startsWith(s, prefix) ==
    CASE prefix = "adult_" -> s \in {"adult_0", "adult_1", "adult_2", "adult_3", "adult_7"}
      [] prefix = "child_" -> s \in {"child_0", "child_1", "child_2", "child_3"}
      [] prefix = "baby_" -> s \in {"baby_0", "baby_1", "baby_2", "baby_3"}
      [] OTHER -> FALSE

-----------------------------------------------------------------------------
(* Field extraction *)

extractTotalPrice(booking) ==
    LET p == booking.price
    IN  IF p.present /\ p._f_total > 0 THEN p._f_total
        ELSE IF booking.stats._f_totalPaid > 0 THEN booking.stats._f_totalPaid
        ELSE IF p.present /\ p.hosting_f_total > 0
             THEN p.hosting_f_total + OrNum(p.extras_f_total, 0)
        ELSE IF p.present /\ p._f_expected > 0 THEN p._f_expected
        ELSE IF p.present /\ p.value > 0 THEN p.value
        ELSE IF p.present
                /\ OrNum(p.value, 0) + OrNum(p.cleaning, 0) + OrNum(p.extras, 0) > 0
             THEN OrNum(p.value, 0) + OrNum(p.cleaning, 0) + OrNum(p.extras, 0)
        ELSE NoNum

placeholders ==
    {"adult_0", "adult_1", "adult_2", "adult_3",
     "child_0", "child_1", "child_2", "child_3",
     "baby_0", "baby_1", "baby_2", "baby_3",
     "guest", "hóspede", "hospede"}

(* A variant of the filter that compares the name as it was received *)
isValidGuestNameExact(name) ==
    IF name = Null \/ name = "" THEN FALSE
    ELSE IF name \in placeholders THEN FALSE
    ELSE IF startsWith(name, "adult_") \/ startsWith(name, "child_")
            \/ startsWith(name, "baby_")
         THEN FALSE
    ELSE TRUE

isValidGuestName(name) ==
    IF name = Null \/ trim(name) = "" THEN FALSE
    ELSE LET lowerName == trim(toLowerCase(name))
         IN  IF lowerName \in placeholders THEN FALSE
             ELSE IF startsWith(lowerName, "adult_") \/ startsWith(lowerName, "child_")
                     \/ startsWith(lowerName, "baby_")
                  THEN FALSE
             ELSE TRUE

extractGuestName(booking) ==
    LET gd == booking.guestsDetails
        guestsList == gd.list
        primaries == {i \in 1..Len(guestsList) : guestsList[i].primary}
        valids == {i \in 1..Len(guestsList) : isValidGuestName(guestsList[i].name)}
        Min(S) == CHOOSE i \in S : \A j \in S : i <= j
    IN  IF gd.present /\ gd.name # Null /\ isValidGuestName(gd.name) THEN trim(gd.name)
        ELSE IF gd.present /\ primaries # {}
                /\ isValidGuestName(guestsList[Min(primaries)].name)
             THEN trim(guestsList[Min(primaries)].name)
        ELSE IF gd.present /\ valids # {} THEN trim(guestsList[Min(valids)].name)
        ELSE "Hóspede"

(* getPlatformImage: the first key of the map, in insertion order, that the *)
(* lower-cased platform contains                                           *)
getPlatformImage(b, platform) ==
    IF platform = Null THEN "/images/platforms/default.png"
    ELSE IF toLowerCase(platform) \in {"airbnb", "api airbnb"}
         THEN "/images/platforms/airbnb.png"
    ELSE IF toLowerCase(platform) \in {"booking", "booking.com"}
         THEN IF b = "current" THEN "/images/platforms/booking.svg"
              ELSE "/images/platforms/booking.png"
    ELSE "/images/platforms/default.png"

(* differenceInDays(checkOut, checkIn), clamped at 0; dates are day numbers *)
calculateNights(checkInDate, checkOutDate) ==
    IF checkOutDate - checkInDate > 0 THEN checkOutDate - checkInDate ELSE 0

guestCountOf(booking) ==
    OrNum(booking.guests,
          OrNum(OrNum(booking.stats.adults, 0) + OrNum(booking.stats.children, 0)
                + OrNum(booking.stats.babies, 0), 0))

platformOf(booking) == OrStr(booking.partnerName, OrStr(booking.source, Null))

-----------------------------------------------------------------------------
(* Sync State Tracker *)

NoFields == [f \in {} |-> Null]

NoCounts == [bookingsCount |-> NoNum, listingsCount |-> NoNum, durationMs |-> NoNum]

(* The $set document updateSyncStatus builds *)
(* A variant that stamps lastSyncAt whatever the status *)
statusUpdateDataStampingAlways(status, error, stats, t) ==
    [status |-> status, updatedAt |-> t, lastSyncAt |-> t]
    @@ (IF error # Null THEN [lastError |-> error] ELSE NoFields)
    @@ (IF stats.bookingsCount # NoNum THEN [bookingsCount |-> stats.bookingsCount]
        ELSE NoFields)
    @@ (IF stats.listingsCount # NoNum THEN [listingsCount |-> stats.listingsCount]
        ELSE NoFields)
    @@ (IF stats.durationMs # NoNum THEN [durationMs |-> stats.durationMs] ELSE NoFields)

(* A variant that writes lastError on every call, null included *)
statusUpdateDataClearingError(status, error, stats, t) ==
    [status |-> status, updatedAt |-> t, lastError |-> error]
    @@ (IF status = "success" \/ status = "error" THEN [lastSyncAt |-> t] ELSE NoFields)
    @@ (IF stats.bookingsCount # NoNum THEN [bookingsCount |-> stats.bookingsCount]
        ELSE NoFields)
    @@ (IF stats.listingsCount # NoNum THEN [listingsCount |-> stats.listingsCount]
        ELSE NoFields)
    @@ (IF stats.durationMs # NoNum THEN [durationMs |-> stats.durationMs] ELSE NoFields)

statusUpdateData(status, error, stats, t) ==
    [status |-> status, updatedAt |-> t]
    @@ (IF status = "success" \/ status = "error" THEN [lastSyncAt |-> t] ELSE NoFields)
    @@ (IF error # Null THEN [lastError |-> error] ELSE NoFields)
    @@ (IF stats.bookingsCount # NoNum THEN [bookingsCount |-> stats.bookingsCount]
        ELSE NoFields)
    @@ (IF stats.listingsCount # NoNum THEN [listingsCount |-> stats.listingsCount]
        ELSE NoFields)
    @@ (IF stats.durationMs # NoNum THEN [durationMs |-> stats.durationMs] ELSE NoFields)

updateSyncStatus(coll, status, error, stats, t) ==
    UpsertById(coll, "current", statusUpdateData(status, error, stats, t), NoFields)

(* getSyncStatus / getPropertySyncStatus: findOne, then x || default per field *)
getSyncStatus(coll) ==
    IF coll = {}
    THEN [lastSyncAt |-> NoNum, status |-> "never", lastError |-> Null,
          bookingsCount |-> 0, listingsCount |-> 0, durationMs |-> 0]
    ELSE LET doc == DocById(coll, "current")
         IN  [lastSyncAt |-> IF Has(doc, "lastSyncAt") THEN doc.lastSyncAt ELSE NoNum,
              status |-> IF Has(doc, "status") THEN doc.status ELSE "never",
              lastError |-> IF Has(doc, "lastError") THEN doc.lastError ELSE Null,
              bookingsCount |-> IF Has(doc, "bookingsCount") THEN doc.bookingsCount ELSE 0,
              listingsCount |-> IF Has(doc, "listingsCount") THEN doc.listingsCount ELSE 0,
              durationMs |-> IF Has(doc, "durationMs") THEN doc.durationMs ELSE 0]

(* Values a handler can catch: an Error instance, the plain StaysApiError    *)
(* object StaysApiClient.get throws on a non-2xx response                    *)
NoErr == [kind |-> "none", message |-> Null]
ApiError == [kind |-> "object", message |-> "Stays API error: Internal Server Error"]
NetworkError == [kind |-> "Error", message |-> "fetch failed"]
DbError == [kind |-> "Error", message |-> "connection closed"]

(* The catch block of syncStaysData *)
bookingErrorMessage(error) ==
    IF error.kind = "Error" THEN error.message
    ELSE IF error.kind = "object" THEN error.message
    ELSE IF error.kind = "string" THEN error.message
    ELSE "Unknown error"

(* The catch block of syncPropertiesData *)
propertyErrorMessage(error) ==
    IF error.kind = "Error" THEN error.message ELSE "Unknown error"

-----------------------------------------------------------------------------
(* Idempotent Upsert Writer: the $set documents of the three writers *)

listingSet(listing, t) ==
    [staysListingId |-> listing._id,
     internalName |-> OrStr(listing.internalName, Null),
     name |-> OrStr(listing.name, Null),
     address |-> OrStr(listing.address, Null),
     thumbnailUrl |-> Null,
     updatedAt |-> t]

reservationSet(b, booking, t) ==
    [staysReservationId |-> booking._id,
     staysBookingCode |-> booking.id,
     listingId |-> booking._idlisting,
     type |-> booking.type,
     checkInDate |-> booking.checkInDate,
     checkInTime |-> OrStr(booking.checkInTime, Null),
     checkOutDate |-> booking.checkOutDate,
     checkOutTime |-> OrStr(booking.checkOutTime, Null),
     guestName |-> IF b = "current" THEN extractGuestName(booking)
                   ELSE OrStr(booking.guestsDetails.name, Null),
     guestCount |-> guestCountOf(booking),
     adults |-> OrNum(booking.stats.adults, 0),
     children |-> OrNum(booking.stats.children, 0),
     babies |-> OrNum(booking.stats.babies, 0),
     nights |-> OrNum(booking.stats.nights, 0),
     platform |-> platformOf(booking),
     channelName |-> OrStr(booking.channelName, Null),
     source |-> OrStr(booking.source, Null),
     status |-> OrStr(booking.status, Null),
     priceValue |-> IF b = "current" THEN extractTotalPrice(booking)
                    ELSE IF booking.price.present THEN OrNum(booking.price.value, NoNum)
                    ELSE NoNum,
     priceCurrency |-> IF b = "current" THEN OrStr(booking.price.currency, "BRL")
                       ELSE OrStr(booking.price.currency, Null),
     updatedAt |-> t,
     syncedAt |-> t]

(* Fields both revisions of writeUnifiedBookingsToMongo set; hasListing says *)
(* whether listings.get(booking._idlisting) found the listing               *)
unifiedCommonSet(b, booking, hasListing, t) ==
    LET listing == ListingDetail(booking._idlisting)
    IN  [id |-> booking._id,
         staysReservationId |-> booking._id,
         staysBookingCode |-> booking.id,
         listingId |-> booking._idlisting,
         apartmentCode |-> IF hasListing THEN OrStr(listing.internalName, booking._idlisting)
                           ELSE booking._idlisting,
         listingName |-> IF hasListing THEN OrStr(listing.name, Null) ELSE Null,
         listingAddress |-> IF hasListing THEN OrStr(listing.address, Null) ELSE Null,
         type |-> booking.type,
         status |-> OrStr(booking.status, Null),
         checkInDate |-> booking.checkInDate,
         checkInTime |-> OrStr(booking.checkInTime, Null),
         checkOutDate |-> booking.checkOutDate,
         checkOutTime |-> OrStr(booking.checkOutTime, Null),
         nights |-> OrNum(booking.stats.nights,
                          calculateNights(booking.checkInDate, booking.checkOutDate)),
         guestCount |-> guestCountOf(booking),
         adults |-> OrNum(booking.stats.adults, 0),
         children |-> OrNum(booking.stats.children, 0),
         babies |-> OrNum(booking.stats.babies, 0),
         platform |-> platformOf(booking),
         platformImage |-> getPlatformImage(b, platformOf(booking)),
         channelName |-> OrStr(booking.channelName, Null),
         source |-> OrStr(booking.source, Null),
         updatedAt |-> t,
         syncedAt |-> t]

(* src/services/sync/SyncService.ts, first revision *)
unifiedSetLegacy(booking, hasListing, t) ==
    [guestName |-> OrStr(booking.guestsDetails.name, "Hóspede"),
     priceValue |-> IF booking.price.present THEN OrNum(booking.price.value, NoNum)
                    ELSE NoNum,
     priceCurrency |-> OrStr(booking.price.currency, Null)]
    @@ unifiedCommonSet("legacy", booking, hasListing, t)

(* services/sync/SyncService.ts, current revision *)
unifiedSetCurrent(booking, hasListing, t) ==
    [guestName |-> extractGuestName(booking),
     creationDate |-> OrStr(booking.creationDate, Null),
     clientId |-> OrStr(booking._idclient, Null),
     guestCountry |-> Null,
     guestLanguage |-> Null,
     guestNationality |-> Null,
     guestEmail |-> Null,
     guestPhone |-> Null,
     priceValue |-> extractTotalPrice(booking),
     priceCurrency |-> OrStr(booking.price.currency, "BRL")]
    @@ unifiedCommonSet("current", booking, hasListing, t)

(* A variant whose $set also names the team and feedback fields *)
unifiedSetWithTeamFields(b, booking, hasListing, t) ==
    [responsibleId |-> Null, responsibleName |-> Null, feedbackRating |-> NoNum,
     feedbackComment |-> Null, feedbackDate |-> NoNum]
    @@ (IF b = "current" THEN unifiedSetCurrent(booking, hasListing, t)
        ELSE unifiedSetLegacy(booking, hasListing, t))

unifiedSet(b, booking, hasListing, t) ==
    IF b = "current" THEN unifiedSetCurrent(booking, hasListing, t)
    ELSE unifiedSetLegacy(booking, hasListing, t)

setOnInsert(t) == [createdAt |-> t]

(* bulkWrite of one upsert per entry of a map, applied to the entries in ids *)
RECURSIVE BulkUpsert(_, _, _, _)
BulkUpsert(coll, ids, SetOf(_), t) ==
    IF ids = {} THEN coll
    ELSE LET id == CHOOSE x \in ids : TRUE
         IN  BulkUpsert(UpsertById(coll, id, SetOf(id), setOnInsert(t)),
                        ids \ {id}, SetOf, t)

(* result.upsertedCount + result.modifiedCount *)
WrittenCount(before, after) ==
    Cardinality({d \in after : d \notin before})

-----------------------------------------------------------------------------
(* Handler invocations.  "init" is runInitialSync, called once per process  *)
(* start; "tick1" is a callback of the booking cron job; "post1" is a POST  *)
(* /sync/trigger request; "ptick" is a callback of the property cron job.   *)

TickProcs == {"tick1"}
PostProcs == {"post1"}
InitProcs == {"init"}
BookingProcs == InitProcs \cup TickProcs \cup PostProcs
PropertyProcs == {"ptick"}
Procs == BookingProcs \cup PropertyProcs

NoDetails == [id \in {} |-> Null]

FreshLocals(pc0) ==
    [pc |-> pc0, seen |-> Null, seenLastSyncAt |-> NoNum, startTime |-> NoNum,
     bookings |-> {}, detailsMap |-> NoDetails,
     listingTried |-> {}, listingMap |-> {},
     listingsWritten |-> NoNum, reservationsWritten |-> NoNum,
     failed |-> {}, err |-> NoErr, thrownAt |-> Null, toEnrich |-> {},
     clientMap |-> {}, outcome |-> "none"]

(* A handler that has returned keeps nothing but what it answered *)
Returned(p, l) ==
    [FreshLocals(IF p \in InitProcs THEN "done" ELSE "idle") EXCEPT !.outcome = l.outcome]

(* Positions inside syncStaysData / syncPropertiesData *)
RunPcs ==
    {"updateRunning", "getAllBookings", "fetchBookingDetails", "fetchListingDetails",
     "writeListings", "writeReservations", "writeUnified", "updateSuccess", "catch",
     "getAllEnhancedListings", "writeProperties"}

InRun(p) == proc[p].pc \in RunPcs
ActiveBookingRuns == {p \in BookingProcs : InRun(p)}

(* Observations kept beside the program's state: how many handlers have    *)
(* been invoked, whether two runs have ever been active together, whether   *)
(* a write of the status record has thrown, whether the process has exited  *)
NoHist ==
    [invocations |-> 0, overlapped |-> FALSE, statusWriteFailed |-> FALSE,
     exited |-> FALSE]

NoCall == [fn |-> "none"]

InitWith(b) ==
    /\ build = b
    /\ now = 0
    /\ syncStatus = {}
    /\ propertySyncStatus = {}
    /\ listings = {}
    /\ reservations = {}
    /\ unifiedBookings = {}
    /\ properties = {}
    /\ proc = [p \in Procs |-> FreshLocals(IF p \in InitProcs THEN "start" ELSE "idle")]
    /\ hist = NoHist
    /\ calc = NoCall

Init == InitWith("current")

CurrentStatus == getSyncStatus(syncStatus).status

ObserveOverlap(p) == [hist EXCEPT !.overlapped = @ \/ ActiveBookingRuns \ {p} # {}]

ObserveFailedWrite == [hist EXCEPT !.statusWriteFailed = TRUE]

-----------------------------------------------------------------------------
(* Trigger paths *)

Frame(changed) ==
    /\ "build" \in changed \/ UNCHANGED build
    /\ "now" \in changed \/ UNCHANGED now
    /\ "syncStatus" \in changed \/ UNCHANGED syncStatus
    /\ "propertySyncStatus" \in changed \/ UNCHANGED propertySyncStatus
    /\ "listings" \in changed \/ UNCHANGED listings
    /\ "reservations" \in changed \/ UNCHANGED reservations
    /\ "unifiedBookings" \in changed \/ UNCHANGED unifiedBookings
    /\ "properties" \in changed \/ UNCHANGED properties
    /\ "proc" \in changed \/ UNCHANGED proc
    /\ "hist" \in changed \/ UNCHANGED hist
    /\ "calc" \in changed \/ UNCHANGED calc

(* const status = await getSyncStatus() -- first statement of all three *)
ReadStatus(p, cap) ==
    /\ p \in BookingProcs
    /\ proc[p].pc = IF p \in InitProcs THEN "start" ELSE "idle"
    /\ hist.invocations < cap
    /\ proc' = [proc EXCEPT ![p] =
                  [FreshLocals("checked") EXCEPT
                     !.seen = getSyncStatus(syncStatus).status,
                     !.seenLastSyncAt = getSyncStatus(syncStatus).lastSyncAt]]
    /\ hist' = [hist EXCEPT !.invocations = @ + 1]
    /\ Frame({"proc", "hist"})

EnterSyncWithoutRunningWrite(p) ==
    [FreshLocals("getAllBookings") EXCEPT !.startTime = now]

(* Entering syncStaysData: const startTime = Date.now(), then the call of   *)
(* updateSyncStatus('running')                                              *)
EnterSync(p) == [FreshLocals("updateRunning") EXCEPT !.startTime = now]

(* Variants of the guards and of the entry, each with one line of the code  *)
(* taken away, against which the properties below are tested                *)
SchedulerGuardWithoutCheck(p) == EnterSync(p)

TriggerGuardWithoutCheck(p) == [EnterSync(p) EXCEPT !.outcome = "started"]

InitialGuardWithoutRunningCheck(p) ==
    IF proc[p].seen = "never" \/ proc[p].seenLastSyncAt = NoNum
    THEN EnterSync(p)
    ELSE Returned(p, [proc[p] EXCEPT !.outcome = "recent"])

(* cron callback in startScheduler, after the status read *)
SchedulerGuard(p) ==
    IF proc[p].seen = "running"
    THEN Returned(p, [proc[p] EXCEPT !.outcome = "skipped"])
    ELSE EnterSync(p)

ScheduledTick(p) ==
    /\ p \in TickProcs
    /\ proc[p].pc = "checked"
    /\ proc' = [proc EXCEPT ![p] = SchedulerGuard(p)]
    /\ hist' = IF InRun(p)' THEN ObserveOverlap(p) ELSE hist
    /\ Frame({"proc", "hist"})

(* POST /sync/trigger, after the status read *)
TriggerGuard(p) ==
    IF proc[p].seen = "running"
    THEN Returned(p, [proc[p] EXCEPT !.outcome = "409"])
    ELSE [EnterSync(p) EXCEPT !.outcome = "started"]

PostSyncTrigger(p) ==
    /\ p \in PostProcs
    /\ proc[p].pc = "checked"
    /\ proc' = [proc EXCEPT ![p] = TriggerGuard(p)]
    /\ hist' = IF InRun(p)' THEN ObserveOverlap(p) ELSE hist
    /\ Frame({"proc", "hist"})

(* runInitialSync, after the status read *)
InitialGuard(p) ==
    IF proc[p].seen = "running"
    THEN Returned(p, [proc[p] EXCEPT !.outcome = "skipped"])
    ELSE IF proc[p].seen = "never" \/ proc[p].seenLastSyncAt = NoNum
         THEN EnterSync(p)
         ELSE Returned(p, [proc[p] EXCEPT !.outcome = "recent"])

RunInitialSync(p) ==
    /\ p \in InitProcs
    /\ proc[p].pc = "checked"
    /\ proc' = [proc EXCEPT ![p] = InitialGuard(p)]
    /\ hist' = IF InRun(p)' THEN ObserveOverlap(p) ELSE hist
    /\ Frame({"proc", "hist"})

-----------------------------------------------------------------------------
(* syncStaysData, one action per await.  What the remote or the database    *)
(* answers is the action's input: ok says whether the call returned or      *)
(* threw, done which operations of a bulkWrite were applied.                *)

(* Where the handler goes once syncStaysData has returned its result: the   *)
(* POST handler only logs it, the tick and runInitialSync go on to enrich   *)
AfterSync(p, l) ==
    IF p \in PostProcs THEN Returned(p, l)
    ELSE [FreshLocals("enrichFind") EXCEPT !.outcome = l.outcome]

(* Where the handler goes once its work is over (or its outer catch ran) *)
HandlerEnd(p, l) == Returned(p, l)

(* Control passes to the catch block of the run; only error, startTime and  *)
(* the handler's own status are read from there on                          *)
Throw(l, e) ==
    [FreshLocals("catch") EXCEPT !.err = e, !.thrownAt = l.pc,
                                 !.startTime = l.startTime, !.outcome = l.outcome]

(* 1. await updateSyncStatus('running') *)
UpdateRunning(p, ok) ==
    /\ p \in BookingProcs
    /\ proc[p].pc = "updateRunning"
    /\ syncStatus' = IF ok THEN updateSyncStatus(syncStatus, "running", Null, NoCounts, now)
                     ELSE syncStatus
    /\ proc' = [proc EXCEPT ![p] = IF ok THEN [@ EXCEPT !.pc = "getAllBookings"]
                                   ELSE Throw(@, DbError)]
    /\ hist' = IF ok THEN hist ELSE ObserveFailedWrite
    /\ Frame({"syncStatus", "proc", "hist"})

(* 3. const bookings = await staysApiClient.getAllBookings(...); the empty  *)
(* list goes straight to the success write with both counts 0              *)
GetAllBookings(p, list, e) ==
    /\ p \in BookingProcs
    /\ proc[p].pc = "getAllBookings"
    /\ proc' = [proc EXCEPT ![p] =
                  IF e # NoErr THEN Throw(@, e)
                  ELSE IF list = {}
                       THEN [@ EXCEPT !.pc = "updateSuccess", !.listingsWritten = 0,
                                      !.reservationsWritten = 0]
                       ELSE [@ EXCEPT !.pc = "fetchBookingDetails", !.bookings = list]]
    /\ Frame({"proc"})

(* A variant of the task's catch that rethrows instead of degrading *)
BookingTaskRethrows(l, id) == Throw(l, ApiError)

(* The queued task of fetchBookingDetails: try { set(_id, details) }        *)
BookingTaskSucceeded(l, id) == [l EXCEPT !.detailsMap = (id :> "detail") @@ @]
(* catch { set(_id, booking) } *)
BookingTaskFailed(l, id) == [l EXCEPT !.detailsMap = (id :> "summary") @@ @]

(* Which item requests of the run have thrown, kept beside the maps *)
ObserveItem(l, item, ok) == IF ok THEN l ELSE [l EXCEPT !.failed = @ \cup {item}]

(* A variant in which the caller resumes as soon as one task has settled *)
ResumeAfterFirstTask(l) ==
    IF l.pc = "fetchBookingDetails" THEN [l EXCEPT !.pc = "fetchListingDetails"] ELSE l

(* await Promise.all(tasks): the caller resumes when every task has settled *)
JoinBookingTasks(l) ==
    IF l.pc = "fetchBookingDetails" /\ DOMAIN l.detailsMap = l.bookings
    THEN [l EXCEPT !.pc = "fetchListingDetails"]
    ELSE l

(* 4. fetchBookingDetails: the detail request of one booking settles *)
BookingDetailTask(p, id, ok) ==
    /\ p \in BookingProcs
    /\ proc[p].pc = "fetchBookingDetails"
    /\ id \in proc[p].bookings \ DOMAIN proc[p].detailsMap
    /\ proc' = [proc EXCEPT ![p] =
                  JoinBookingTasks(IF ok THEN BookingTaskSucceeded(ObserveItem(@, id, ok), id)
                                   ELSE BookingTaskFailed(ObserveItem(@, id, ok), id))]
    /\ Frame({"proc"})

(* const uniqueIds = [...new Set(bookings.map(b => b._idlisting))] *)
uniqueListingIds(l) == {BookingSummary(id)._idlisting : id \in l.bookings}

ListingTaskSucceeded(l, lid) ==
    [l EXCEPT !.listingMap = @ \cup {lid}, !.listingTried = @ \cup {lid}]
(* catch { console.warn } : the listing is left out of the map *)
ListingTaskFailed(l, lid) == [l EXCEPT !.listingTried = @ \cup {lid}]

JoinListingTasks(l) ==
    IF l.pc = "fetchListingDetails" /\ l.listingTried = uniqueListingIds(l)
    THEN [l EXCEPT !.pc = "writeListings"]
    ELSE l

(* 5. fetchListingDetails: the detail request of one listing settles *)
ListingDetailTask(p, lid, ok) ==
    /\ p \in BookingProcs
    /\ proc[p].pc = "fetchListingDetails"
    /\ lid \in uniqueListingIds(proc[p]) \ proc[p].listingTried
    /\ proc' = [proc EXCEPT ![p] =
                  JoinListingTasks(IF ok THEN ListingTaskSucceeded(ObserveItem(@, lid, ok), lid)
                                   ELSE ListingTaskFailed(ObserveItem(@, lid, ok), lid))]
    /\ Frame({"proc"})

(* The record the detail map holds for a reservation *)
MappedBooking(l, id) ==
    IF l.detailsMap[id] = "detail" THEN BookingDetail(id) ELSE BookingSummary(id)

writeListingsToMongo(coll, ids, t) ==
    BulkUpsert(coll, ids, LAMBDA lid : listingSet(ListingDetail(lid), t), t)

writeReservationsToMongo(coll, l, ids, t) ==
    BulkUpsert(coll, ids, LAMBDA id : reservationSet(build, MappedBooking(l, id), t), t)

(* A variant of the unified writer that drops the documents of the         *)
(* reservations the run did not fetch                                      *)
writeUnifiedReplacingMirror(coll, l, ids, t) ==
    BulkUpsert({d \in coll : d._id \in ids}, ids,
               LAMBDA id : unifiedSet(build, MappedBooking(l, id),
                                      MappedBooking(l, id)._idlisting \in l.listingMap, t),
               t)

writeUnifiedBookingsToMongo(coll, l, ids, t) ==
    BulkUpsert(coll, ids,
               LAMBDA id : unifiedSet(build, MappedBooking(l, id),
                                      MappedBooking(l, id)._idlisting \in l.listingMap, t),
               t)

(* 6. await writeListingsToMongo(listingDetails); a bulkWrite that throws   *)
(* has applied the operations in done and no other; an empty map is no      *)
(* database call                                                            *)
WriteListings(p, done) ==
    /\ p \in BookingProcs
    /\ proc[p].pc = "writeListings"
    /\ done \subseteq proc[p].listingMap
    /\ listings' = writeListingsToMongo(listings, done, now)
    /\ proc' = [proc EXCEPT ![p] =
                  IF done = proc[p].listingMap
                  THEN [@ EXCEPT !.pc = "writeReservations",
                                 !.listingsWritten = WrittenCount(listings, listings')]
                  ELSE Throw(@, DbError)]
    /\ Frame({"listings", "proc"})

(* 7. await writeReservationsToMongo(bookingDetails) *)
WriteReservations(p, done) ==
    /\ p \in BookingProcs
    /\ proc[p].pc = "writeReservations"
    /\ done \subseteq DOMAIN proc[p].detailsMap
    /\ reservations' = writeReservationsToMongo(reservations, proc[p], done, now)
    /\ proc' = [proc EXCEPT ![p] =
                  IF done = DOMAIN proc[p].detailsMap
                  THEN [@ EXCEPT !.pc = "writeUnified",
                                 !.reservationsWritten =
                                     WrittenCount(reservations, reservations')]
                  ELSE Throw(@, DbError)]
    /\ Frame({"reservations", "proc"})

(* 8. await writeUnifiedBookingsToMongo(bookingDetails, listingDetails) *)
WriteUnified(p, done) ==
    /\ p \in BookingProcs
    /\ proc[p].pc = "writeUnified"
    /\ done \subseteq DOMAIN proc[p].detailsMap
    /\ unifiedBookings' = writeUnifiedBookingsToMongo(unifiedBookings, proc[p], done, now)
    /\ proc' = [proc EXCEPT ![p] =
                  IF done = DOMAIN proc[p].detailsMap
                  THEN [@ EXCEPT !.pc = "updateSuccess"]
                  ELSE Throw(@, DbError)]
    /\ Frame({"unifiedBookings", "proc"})

(* 9. await updateSyncStatus('success', null, {bookingsCount, listingsCount, *)
(* durationMs})                                                             *)
UpdateSuccess(p, ok) ==
    /\ p \in BookingProcs
    /\ proc[p].pc = "updateSuccess"
    /\ syncStatus' =
           IF ok
           THEN updateSyncStatus(syncStatus, "success", Null,
                                 [bookingsCount |-> proc[p].reservationsWritten,
                                  listingsCount |-> proc[p].listingsWritten,
                                  durationMs |-> now - proc[p].startTime], now)
           ELSE syncStatus
    /\ proc' = [proc EXCEPT ![p] = IF ok THEN AfterSync(p, @) ELSE Throw(@, DbError)]
    /\ hist' = IF ok THEN hist ELSE ObserveFailedWrite
    /\ Frame({"syncStatus", "proc", "hist"})

(* catch (error): await updateSyncStatus('error', errorMessage, {durationMs}); *)
(* when that write throws too, syncStaysData rejects and the handler's own    *)
(* catch logs it                                                              *)
CatchSyncError(p, ok) ==
    /\ p \in BookingProcs
    /\ proc[p].pc = "catch"
    /\ syncStatus' =
           IF ok
           THEN updateSyncStatus(syncStatus, "error", bookingErrorMessage(proc[p].err),
                                 [NoCounts EXCEPT !.durationMs = now - proc[p].startTime],
                                 now)
           ELSE syncStatus
    /\ proc' = [proc EXCEPT ![p] = IF ok THEN AfterSync(p, @) ELSE HandlerEnd(p, @)]
    /\ hist' = IF ok THEN hist ELSE ObserveFailedWrite
    /\ Frame({"syncStatus", "proc", "hist"})

-----------------------------------------------------------------------------
(* enrichBookingsWithClientData, run by the tick and by runInitialSync once *)
(* syncStaysData has returned                                               *)

Field(doc, f, default) == IF Has(doc, f) THEN doc[f] ELSE default

(* find({clientId: {$ne: null}, guestCountry: null}) *)
NeedsEnrichment(doc) ==
    /\ Field(doc, "clientId", Null) # Null
    /\ Field(doc, "guestCountry", Null) = Null

enrichmentSet(clientData, t) ==
    [guestCountry |-> OrStr(clientData.country, Null),
     guestLanguage |-> OrStr(clientData.language, Null),
     guestNationality |-> OrStr(clientData.nationality, Null),
     guestEmail |-> OrStr(clientData.email, Null),
     guestPhone |-> OrStr(clientData.phone, Null),
     enrichedAt |-> t]

(* const bookingsToEnrich = await ...find(...).limit(100).toArray() *)
EnrichFind(p) ==
    /\ p \in TickProcs \cup InitProcs
    /\ proc[p].pc = "enrichFind"
    /\ LET found == {d \in unifiedBookings : NeedsEnrichment(d)}
       IN  proc' = [proc EXCEPT ![p] =
                      IF found = {} THEN HandlerEnd(p, @)
                      ELSE [@ EXCEPT !.pc = "enrichFetch",
                                     !.toEnrich = {<<d._id, d.clientId>> : d \in found}]]
    /\ Frame({"proc"})

(* await Promise.all(tasks): the getClientDetails calls in fetched returned, *)
(* the others threw and were dropped                                         *)
EnrichFetch(p, fetched) ==
    /\ p \in TickProcs \cup InitProcs
    /\ proc[p].pc = "enrichFetch"
    /\ fetched \subseteq {e[2] : e \in proc[p].toEnrich}
    /\ proc' = [proc EXCEPT ![p].pc = "enrichUpdate", ![p].clientMap = fetched]
    /\ Frame({"proc"})

(* One iteration of for (const booking of bookingsToEnrich) *)
EnrichUpdate(p) ==
    /\ p \in TickProcs \cup InitProcs
    /\ proc[p].pc = "enrichUpdate"
    /\ \E e \in proc[p].toEnrich :
          /\ unifiedBookings' =
                 IF e[2] \in proc[p].clientMap
                 THEN UpdateWhere(unifiedBookings, LAMBDA d : d._id = e[1],
                                  enrichmentSet(ClientDetail(e[2]), now))
                 ELSE unifiedBookings
          /\ proc' = [proc EXCEPT ![p] =
                        IF proc[p].toEnrich = {e} THEN HandlerEnd(p, @)
                        ELSE [@ EXCEPT !.toEnrich = @ \ {e}]]
    /\ Frame({"unifiedBookings", "proc"})

-----------------------------------------------------------------------------
(* TeamService: writers of the team-assignment and feedback fields *)

assignResponsible(coll, reservationId, userId, userName, t) ==
    UpdateWhere(coll, LAMBDA d : Field(d, "id", Null) = reservationId,
                [responsibleId |-> userId, responsibleName |-> userName, updatedAt |-> t])

addFeedback(coll, reservationId, rating, comment, t) ==
    UpdateWhere(coll, LAMBDA d : Field(d, "id", Null) = reservationId,
                [feedbackRating |-> rating, feedbackComment |-> OrStr(comment, Null),
                 feedbackDate |-> t, updatedAt |-> t])

AssignResponsible(id, u) ==
    /\ unifiedBookings' = assignResponsible(unifiedBookings, id, u, "Ana", now)
    /\ unifiedBookings' # unifiedBookings
    /\ Frame({"unifiedBookings"})

AddFeedback(id, r) ==
    /\ unifiedBookings' = addFeedback(unifiedBookings, id, r, Null, now)
    /\ unifiedBookings' # unifiedBookings
    /\ Frame({"unifiedBookings"})

-----------------------------------------------------------------------------
(* syncPropertiesData and its cron callback *)

NoPropertyCounts == [propertiesCount |-> NoNum, durationMs |-> NoNum]

updatePropertySyncStatus(coll, status, error, stats, t) ==
    UpsertById(coll, "current",
               [status |-> status, updatedAt |-> t]
               @@ (IF status = "success" \/ status = "error" THEN [lastSyncAt |-> t]
                   ELSE NoFields)
               @@ (IF error # Null THEN [lastError |-> error] ELSE NoFields)
               @@ (IF stats.propertiesCount # NoNum
                   THEN [propertiesCount |-> stats.propertiesCount] ELSE NoFields)
               @@ (IF stats.durationMs # NoNum THEN [durationMs |-> stats.durationMs]
                   ELSE NoFields),
               NoFields)

(* updateOne({staysListingId}, {$set: syncedFields, $setOnInsert}, upsert) *)
writePropertiesToMongo(coll, ids, t) ==
    {IF d.staysListingId \in ids THEN SetFields(d, [updatedAt |-> t, syncedAt |-> t]) ELSE d
        : d \in coll}
    \cup {[staysListingId |-> lid, updatedAt |-> t, syncedAt |-> t, createdAt |-> t,
           manualOverrides |-> "default", lastManualUpdateAt |-> NoNum]
            : lid \in ids \ {d.staysListingId : d \in coll}}

(* const status = await getPropertySyncStatus(); if running, skip *)
PropertyTick(p, cap) ==
    /\ p \in PropertyProcs
    /\ proc[p].pc = "idle"
    /\ hist.invocations < cap
    /\ hist' = [hist EXCEPT !.invocations = @ + 1]
    /\ proc' = [proc EXCEPT ![p] =
                  IF getSyncStatus(propertySyncStatus).status = "running"
                  THEN [FreshLocals("idle") EXCEPT !.outcome = "skipped"]
                  ELSE [FreshLocals("updateRunning") EXCEPT !.startTime = now]]
    /\ Frame({"proc", "hist"})

PropertyUpdateRunning(p, ok) ==
    /\ p \in PropertyProcs
    /\ proc[p].pc = "updateRunning"
    /\ propertySyncStatus' =
           IF ok THEN updatePropertySyncStatus(propertySyncStatus, "running", Null,
                                               NoPropertyCounts, now)
           ELSE propertySyncStatus
    /\ proc' = [proc EXCEPT ![p] = IF ok THEN [@ EXCEPT !.pc = "getAllEnhancedListings"]
                                   ELSE Throw(@, DbError)]
    /\ Frame({"propertySyncStatus", "proc"})

(* fetchAmenitiesReference never throws (getAmenities returns [] on error); *)
(* getAllEnhancedListings throws what StaysApiClient.get throws; a failed   *)
(* per-listing detail falls back to the basic record                        *)
GetAllEnhancedListings(p, list, e) ==
    /\ p \in PropertyProcs
    /\ proc[p].pc = "getAllEnhancedListings"
    /\ proc' = [proc EXCEPT ![p] =
                  IF e # NoErr THEN Throw(@, e)
                  ELSE IF list = {}
                       THEN [@ EXCEPT !.pc = "updateSuccess", !.listingsWritten = 0]
                       ELSE [@ EXCEPT !.pc = "writeProperties", !.listingMap = list]]
    /\ Frame({"proc"})

(* writePropertiesToMongo, then initializeManualOverridesForExistingProperties *)
(* (no document written by this writer has manualOverrides null)              *)
WriteProperties(p, done) ==
    /\ p \in PropertyProcs
    /\ proc[p].pc = "writeProperties"
    /\ done \subseteq proc[p].listingMap
    /\ properties' = writePropertiesToMongo(properties, done, now)
    /\ proc' = [proc EXCEPT ![p] =
                  IF done = proc[p].listingMap
                  THEN [@ EXCEPT !.pc = "updateSuccess",
                                 !.listingsWritten = WrittenCount(properties, properties')]
                  ELSE Throw(@, DbError)]
    /\ Frame({"properties", "proc"})

PropertyUpdateSuccess(p, ok) ==
    /\ p \in PropertyProcs
    /\ proc[p].pc = "updateSuccess"
    /\ propertySyncStatus' =
           IF ok
           THEN updatePropertySyncStatus(propertySyncStatus, "success", Null,
                    [propertiesCount |-> proc[p].listingsWritten,
                     durationMs |-> now - proc[p].startTime], now)
           ELSE propertySyncStatus
    /\ proc' = [proc EXCEPT ![p] =
                  IF ok THEN Returned(p, [@ EXCEPT !.outcome = "success"])
                  ELSE Throw(@, DbError)]
    /\ Frame({"propertySyncStatus", "proc"})

CatchPropertyError(p, ok) ==
    /\ p \in PropertyProcs
    /\ proc[p].pc = "catch"
    /\ propertySyncStatus' =
           IF ok
           THEN updatePropertySyncStatus(propertySyncStatus, "error",
                    propertyErrorMessage(proc[p].err),
                    [NoPropertyCounts EXCEPT !.durationMs = now - proc[p].startTime], now)
           ELSE propertySyncStatus
    /\ proc' = [proc EXCEPT ![p] =
                  Returned(p, [@ EXCEPT !.outcome = IF ok THEN "error" ELSE "rejected"])]
    /\ Frame({"propertySyncStatus", "proc"})

-----------------------------------------------------------------------------
(* Environment *)

(* The clock is read in whole ticks, and a handler runs within one tick *)
TimePasses ==
    /\ now < MaxClock
    /\ \A p \in Procs : proc[p].pc \in {"idle", "start", "done"}
    /\ now' = now + 1
    /\ Frame({"now"})

(* The process exits (crash, SIGTERM) and is started again: every handler   *)
(* in flight is gone, the database keeps what was written, main() calls     *)
(* runInitialSync and starts the schedulers                                 *)
ProcessRestart ==
    /\ \E p \in Procs : InRun(p)
    /\ proc' = [p \in Procs |-> FreshLocals(IF p \in InitProcs THEN "start" ELSE "idle")]
    /\ hist' = [hist EXCEPT !.exited = TRUE]
    /\ Frame({"proc", "hist"})

-----------------------------------------------------------------------------
(* Specifications *)

MaxTriggers == 4
MaxRuns == 2

(* One step of a booking-sync handler.  cap bounds the handler invocations; *)
(* lists and errors are what the first list request may return or throw;    *)
(* itemOks, writeOks say whether item requests and status writes may throw; *)
(* partial whether a bulkWrite may stop part-way                            *)
BookingStep(p, cap, lists, errors, itemOks, writeOks, partial) ==
    \/ ReadStatus(p, cap)
    \/ ScheduledTick(p)
    \/ PostSyncTrigger(p)
    \/ RunInitialSync(p)
    \/ \E ok \in writeOks : UpdateRunning(p, ok)
    \/ \E list \in lists : GetAllBookings(p, list, NoErr)
    \/ \E e \in errors : GetAllBookings(p, {}, e)
    \/ \E id \in ResIds, ok \in itemOks : BookingDetailTask(p, id, ok)
    \/ \E lid \in ListingIds, ok \in itemOks : ListingDetailTask(p, lid, ok)
    \/ \E done \in SUBSET ListingIds :
          (partial \/ done = proc[p].listingMap) /\ WriteListings(p, done)
    \/ \E done \in SUBSET ResIds :
          (partial \/ done = DOMAIN proc[p].detailsMap) /\ WriteReservations(p, done)
    \/ \E done \in SUBSET ResIds :
          (partial \/ done = DOMAIN proc[p].detailsMap) /\ WriteUnified(p, done)
    \/ \E ok \in writeOks : UpdateSuccess(p, ok)
    \/ \E ok \in writeOks : CatchSyncError(p, ok)

EnrichStep(p) ==
    \/ EnrichFind(p)
    \/ \E fetched \in SUBSET ClientIds : EnrichFetch(p, fetched)
    \/ EnrichUpdate(p)

PropertyStep(p, cap) ==
    \/ PropertyTick(p, cap)
    \/ \E ok \in BOOLEAN : PropertyUpdateRunning(p, ok)
    \/ \E list \in {{}, ListingIds} : GetAllEnhancedListings(p, list, NoErr)
    \/ \E e \in {ApiError, NetworkError} : GetAllEnhancedListings(p, {}, e)
    \/ \E done \in SUBSET ListingIds : WriteProperties(p, done)
    \/ \E ok \in BOOLEAN : PropertyUpdateSuccess(p, ok)
    \/ \E ok \in BOOLEAN : CatchPropertyError(p, ok)

(* Spec: the three trigger paths racing for the sync state tracker while    *)
(* the remote holds one blocked booking, the process exiting and starting   *)
(* again at any point of a run                                              *)
Next ==
    \/ \E p \in BookingProcs :
          \/ BookingStep(p, MaxTriggers, {{"r2"}}, {ApiError}, {TRUE}, BOOLEAN, FALSE)
          \/ EnrichFind(p)
    \/ ProcessRestart

Spec == Init /\ [][Next]_vars

(* No other handler is in flight *)
Alone(p) == \A q \in Procs \ {p} : proc[q].pc \in {"idle", "start", "done"}

(* SpecPipeline: booking runs and property runs, one handler at a time,     *)
(* with every failure of the remote and of the database                     *)
PipelineNext ==
    \/ \E p \in BookingProcs :
          /\ Alone(p)
          /\ \/ BookingStep(p, MaxRuns, RemoteLists, {ApiError, NetworkError},
                            BOOLEAN, BOOLEAN, TRUE)
             \/ EnrichStep(p)
    \/ /\ Alone("ptick")
       /\ PropertyStep("ptick", MaxRuns)

SpecPipeline == Init /\ [][PipelineNext]_vars

(* SpecMirror: repeated booking syncs of either revision, one handler at a  *)
(* time, with client enrichment, the team and feedback writers, and the     *)
(* passing of time                                                          *)
MirrorNext ==
    \/ \E p \in BookingProcs :
          /\ Alone(p)
          /\ \/ BookingStep(p, MaxRuns, {{"r1"}}, {ApiError}, {TRUE}, {TRUE}, FALSE)
             \/ EnrichStep(p)
    \/ \E id \in ResIds, u \in UserIds : AssignResponsible(id, u)
    \/ \E id \in ResIds, r \in Ratings : AddFeedback(id, r)
    \/ TimePasses

MirrorInit == \E b \in Builds : InitWith(b)

SpecMirror == MirrorInit /\ [][MirrorNext]_vars

-----------------------------------------------------------------------------
(* The sync state tracker as a run guard (checked under Spec) *)

(* C1 as stated: under every interleaving of the cron tick, POST            *)
(* /sync/trigger and runInitialSync, at most one syncStaysData run is       *)
(* active at any moment.                                                    *)
C1_AtMostOneActiveRun == Cardinality(ActiveBookingRuns) <= 1

(* C1 amended: a trigger path enters syncStaysData only if the status it    *)
(* read was not 'running'; the read and the write of 'running' are separate *)
(* steps, so this does not keep two runs from being active together.        *)
C1_RunStartsOnlyAfterReadingNotRunning ==
    [][\A p \in BookingProcs :
          (~InRun(p) /\ InRun(p)') => proc[p].seen # "running"]_vars

(* Two runs active together while a third trigger has been refused *)
C1_TwoRunsAndARefusal ==
    /\ Cardinality(ActiveBookingRuns) = 2
    /\ \E p \in BookingProcs : proc[p].outcome \in {"skipped", "409"}

(* C2: a POST /sync/trigger whose status read returned 'running' answers    *)
(* 409, starts no run and changes neither the SyncStatus record nor any     *)
(* mirror collection.                                                       *)
C2_TriggerRejectedWhileRunning ==
    [][\A p \in PostProcs :
          (PostSyncTrigger(p) /\ proc[p].seen = "running")
             => /\ proc'[p].outcome = "409"
                /\ ~InRun(p)'
                /\ UNCHANGED <<syncStatus, listings, reservations, unifiedBookings,
                               propertySyncStatus, properties>>]_vars

(* The request was answered 409 while a run of another trigger is active *)
C2_Answered409 ==
    /\ proc["post1"].outcome = "409"
    /\ ActiveBookingRuns # {}
    /\ CurrentStatus = "running"

AllowedTransitions ==
    {<<"never", "running">>, <<"running", "success">>, <<"running", "error">>,
     <<"success", "running">>, <<"error", "running">>}

(* A write of the status record by the run of p that did not throw *)
StatusWrite(p) ==
    UpdateRunning(p, TRUE) \/ UpdateSuccess(p, TRUE) \/ CatchSyncError(p, TRUE)

Wedged ==
    /\ CurrentStatus = "running"
    /\ ActiveBookingRuns = {}
    /\ \A p \in BookingProcs : proc[p].pc = "checked" => proc[p].seen = "running"

(* C10: when the process exits while status is 'running', then after the    *)
(* restart every trigger path skips or rejects, no run starts and status    *)
(* stays 'running'.                                                         *)
C10_WedgedAfterExitWhileRunning ==
    [][/\ (ProcessRestart /\ CurrentStatus = "running") => Wedged'
       /\ Wedged =>
             /\ Wedged'
             /\ \A p \in BookingProcs :
                   (proc[p].pc = "checked" /\ proc'[p] # proc[p])
                      => proc'[p].outcome \in {"skipped", "409"}]_vars

(* After an exit, all three trigger paths have been refused *)
C10_AllPathsRefusedAfterRestart ==
    /\ hist.exited
    /\ Wedged
    /\ proc["init"].outcome = "skipped"
    /\ proc["tick1"].outcome = "skipped"
    /\ proc["post1"].outcome = "409"

-----------------------------------------------------------------------------
(* The idempotent upsert writer and the fields it does not own (checked     *)
(* under SpecMirror)                                                        *)

EnrichedFields ==
    {"guestCountry", "guestLanguage", "guestNationality", "guestEmail", "guestPhone"}

TeamFields ==
    {"responsibleId", "responsibleName", "feedbackRating", "feedbackComment",
     "feedbackDate"}

(* The document of coll with the _id of d has the fields of d named in fs,  *)
(* with the same values, and no other field of fs                           *)
KeepsFields(d, coll, fs) ==
    \E e \in coll :
       /\ e._id = d._id
       /\ \A f \in fs : /\ Has(e, f) <=> Has(d, f)
                        /\ Has(d, f) => e[f] = d[f]

(* A step of the booking sync writing the unified collection *)
SyncWritesUnified == \E p \in BookingProcs, done \in SUBSET ResIds : WriteUnified(p, done)

(* C4: once enrichment has written guestCountry, guestLanguage,             *)
(* guestNationality, guestEmail and guestPhone on a unified booking, a      *)
(* later sync leaves these fields unchanged.                                *)
C4_EnrichmentSurvivesSync ==
    [][SyncWritesUnified =>
          \A d \in unifiedBookings :
             Has(d, "enrichedAt") => KeepsFields(d, unifiedBookings', EnrichedFields)]_vars

(* C5: the team fields (responsibleId, responsibleName) and the feedback    *)
(* fields (feedbackRating, feedbackComment, feedbackDate) of a unified      *)
(* booking are left unchanged by every later step of a sync.                *)
C5_TeamAndFeedbackSurviveSync ==
    [][proc' # proc =>
          \A d \in unifiedBookings : KeepsFields(d, unifiedBookings', TeamFields)]_vars

(* A booking that was assigned and rated, and synced again afterwards *)
C5_SyncedAfterFeedback ==
    \E d \in unifiedBookings :
       /\ Has(d, "responsibleId")
       /\ Has(d, "feedbackDate")
       /\ d.syncedAt > d.feedbackDate

(* The three collections after the writers have run on the maps of l *)
WriteAll(M, l, t) ==
    [listings |-> writeListingsToMongo(M.listings, l.listingMap, t),
     reservations |-> writeReservationsToMongo(M.reservations, l, DOMAIN l.detailsMap, t),
     unifiedBookings |->
         writeUnifiedBookingsToMongo(M.unifiedBookings, l, DOMAIN l.detailsMap, t)]

Stamps == {"updatedAt", "syncedAt"}

SameExceptStamps(d, e) ==
    /\ DOMAIN d = DOMAIN e
    /\ \A f \in DOMAIN d \ Stamps : d[f] = e[f]

SameDocuments(A, B) ==
    /\ Cardinality(A) = Cardinality(B)
    /\ \A d \in A : \E e \in B : e._id = d._id /\ SameExceptStamps(d, e)

(* C6: the writers applied a second time to the same maps leave the same    *)
(* documents with the same fields, except updatedAt and syncedAt; createdAt *)
(* is unchanged.                                                            *)
C6_WriterIdempotent ==
    \A p \in BookingProcs :
       proc[p].pc = "writeListings" =>
          LET M0 == [listings |-> listings, reservations |-> reservations,
                     unifiedBookings |-> unifiedBookings]
              M1 == WriteAll(M0, proc[p], now)
              M2 == WriteAll(M1, proc[p], now + 1)
          IN  \A c \in DOMAIN M0 :
                 /\ SameDocuments(M1[c], M2[c])
                 /\ \A d \in M1[c] : \E e \in M2[c] :
                       e._id = d._id /\ e.createdAt = d.createdAt

(* A run about to write over documents an earlier run inserted *)
C6_WritingOverEarlierRun ==
    \E p \in BookingProcs :
       /\ proc[p].pc = "writeListings"
       /\ proc[p].listingMap # {}
       /\ \E d \in reservations : d.createdAt < now
       /\ \E d \in unifiedBookings : d.createdAt < now

UniqueIds(coll) ==
    \A d, e \in coll : d._id = e._id => d = e

(* C7: each of the unified, reservation and listing collections holds one   *)
(* document per external id; createdAt is set when the document is inserted *)
(* and never changes afterwards.                                            *)
C7_OneDocumentPerId ==
    [][/\ UniqueIds(unifiedBookings') /\ UniqueIds(reservations') /\ UniqueIds(listings')
       /\ \A coll \in {unifiedBookings, reservations, listings} :
             \A d \in coll : Has(d, "createdAt")
       /\ \A d \in unifiedBookings :
             \E e \in unifiedBookings' : e._id = d._id /\ e.createdAt = d.createdAt
       /\ \A d \in reservations :
             \E e \in reservations' : e._id = d._id /\ e.createdAt = d.createdAt
       /\ \A d \in listings :
             \E e \in listings' : e._id = d._id /\ e.createdAt = d.createdAt]_vars

(* Every collection holds a document written again after its insert *)
C7_RewrittenDocuments ==
    /\ \E d \in unifiedBookings : d.syncedAt > d.createdAt
    /\ \E d \in reservations : d.syncedAt > d.createdAt
    /\ \E d \in listings : d.updatedAt > d.createdAt

-----------------------------------------------------------------------------
(* Failure handling of a run (checked under SpecPipeline) *)

PastBookingDetails ==
    {"fetchListingDetails", "writeListings", "writeReservations", "writeUnified",
     "updateSuccess"}

PastListingDetails == {"writeListings", "writeReservations", "writeUnified", "updateSuccess"}

(* C8: once the detail fetch has ended, the detail map holds one record per *)
(* reservation id of the list, the detail where the request succeeded and   *)
(* the summary where it failed; a listing whose request failed is absent    *)
(* from the listing map; and no failed item request takes the run to its    *)
(* catch block, so none aborts it or yields status 'error'.                 *)
C8_PerItemFailuresDegrade ==
    \A p \in BookingProcs :
       LET l == proc[p]
       IN  /\ (l.pc \in PastBookingDetails /\ l.bookings # {}) =>
                 /\ DOMAIN l.detailsMap = l.bookings
                 /\ \A id \in l.bookings :
                       l.detailsMap[id] = IF id \in l.failed THEN "summary" ELSE "detail"
           /\ (l.pc \in PastListingDetails /\ l.bookings # {}) =>
                 l.listingMap = uniqueListingIds(l) \ l.failed
           /\ l.pc = "catch" =>
                 l.thrownAt \notin {"fetchBookingDetails", "fetchListingDetails"}

(* A run about to write 'success' although one reservation's and the        *)
(* listing's requests failed                                                *)
C8_SuccessDespiteFailedItems ==
    LET l == proc["tick1"]
    IN  /\ l.pc = "updateSuccess"
        /\ l.bookings = {"r1", "r2"}
        /\ l.failed = {"r1", "L1"}
        /\ l.detailsMap["r2"] = "detail"

(* C9: when the first list request fails or a write throws, the run ends    *)
(* with status 'error' and lastError equal to the failure's message, and    *)
(* the documents written before the failure stay; in the booking domain and *)
(* in the property domain.                                                  *)
C9_ErrorRecordedWithItsMessage ==
    [][/\ \A p \in BookingProcs :
             CatchSyncError(p, TRUE) =>
                /\ getSyncStatus(syncStatus').status = "error"
                /\ getSyncStatus(syncStatus').lastError = proc[p].err.message
                /\ UNCHANGED <<listings, reservations, unifiedBookings>>
       /\ \A p \in PropertyProcs :
             CatchPropertyError(p, TRUE) =>
                /\ getSyncStatus(propertySyncStatus').status = "error"
                /\ getSyncStatus(propertySyncStatus').lastError = proc[p].err.message
                /\ UNCHANGED properties]_vars

-----------------------------------------------------------------------------
(* What the status record holds (checked under SpecMirror) *)

StatusDoc == DocById(syncStatus, "current")

(* The write of 'running' by the run of p, over an existing record *)
RunningWriteOver(p) == UpdateRunning(p, TRUE) /\ syncStatus # {}

(* C11 as stated: the transition into 'running' changes only the status     *)
(* field of the SyncStatus record.                                          *)
C11_RunningChangesOnlyStatus ==
    [][\A p \in BookingProcs :
          RunningWriteOver(p) =>
             \A f \in DOMAIN StatusDoc \ {"status"} : StatusDoc'[f] = StatusDoc[f]]_vars

(* C11 amended: the transition into 'running' changes only status and       *)
(* updatedAt; lastSyncAt, lastError, bookingsCount, listingsCount and       *)
(* durationMs keep their previous values (or stay absent), and lastSyncAt   *)
(* is written only by a transition into success or error.                   *)
C11_RunningKeepsLastRunFields ==
    [][/\ \A p \in BookingProcs :
             UpdateRunning(p, TRUE) =>
                /\ getSyncStatus(syncStatus') =
                      [getSyncStatus(syncStatus) EXCEPT !.status = "running"]
                /\ syncStatus # {} =>
                      /\ DOMAIN StatusDoc' = DOMAIN StatusDoc
                      /\ \A f \in DOMAIN StatusDoc \ {"status", "updatedAt"} :
                            StatusDoc'[f] = StatusDoc[f]
       /\ getSyncStatus(syncStatus').lastSyncAt # getSyncStatus(syncStatus).lastSyncAt
             => CurrentStatus' \in {"success", "error"}]_vars

(* A second run has written 'running' over the record of a run that ended   *)
(* at an earlier time                                                       *)
C11_RunningOverEarlierRecord ==
    /\ CurrentStatus = "running"
    /\ Has(StatusDoc, "lastSyncAt")
    /\ Has(StatusDoc, "durationMs")
    /\ StatusDoc.updatedAt > StatusDoc.lastSyncAt

-----------------------------------------------------------------------------
(* Last-run figures of the status record (checked under SpecPipeline) *)

(* What syncStaysData returns as the run's figures: the written counts on   *)
(* success, 0 and 0 in the catch block, and the duration in both            *)
RunFigures(p, ok) ==
    [bookingsCount |-> IF ok THEN proc[p].reservationsWritten ELSE 0,
     listingsCount |-> IF ok THEN proc[p].listingsWritten ELSE 0,
     durationMs |-> now - proc[p].startTime]

RecordFigures(coll) ==
    [f \in {"bookingsCount", "listingsCount", "durationMs"} |-> getSyncStatus(coll)[f]]

(* C12: when a run ends, in success or in error, bookingsCount,             *)
(* listingsCount and durationMs of the SyncStatus record are those of the   *)
(* run that just ended.                                                     *)
C12_RecordHoldsFiguresOfEndedRun ==
    [][\A p \in BookingProcs :
          /\ UpdateSuccess(p, TRUE) => RecordFigures(syncStatus') = RunFigures(p, TRUE)
          /\ CatchSyncError(p, TRUE) => RecordFigures(syncStatus') = RunFigures(p, FALSE)]_vars

-----------------------------------------------------------------------------
(* Field extraction and aggregation as functions of their input (SpecCalc): *)
(* each action calls one function on an input drawn from a bounded set and  *)
(* keeps the input and the result; a behaviour is one call                  *)

(* Amounts are multiples of 10, so none of them is NoNum *)
PriceObjects ==
    {NoPrice} \cup
    [present : {TRUE}, _f_total : {NoNum, 0, 900, 0 - 900}, _f_expected : {NoNum, 500},
     hosting_f_total : {NoNum, 100}, extras_f_total : {NoNum, 50, 0 - 100},
     value : {NoNum, 0, 300, 0 - 300}, cleaning : {NoNum, 70}, extras : {NoNum, 30},
     currency : {"BRL"}]

PaidAmounts == {NoNum, 800}

PricedBooking(price, paid) ==
    [BookingDetail("r1") EXCEPT !.price = price, !.stats._f_totalPaid = paid]

(* extractTotalPrice(booking) *)
ExtractTotalPrice(booking) ==
    /\ calc = NoCall
    /\ calc' = [fn |-> "extractTotalPrice", input |-> booking,
                output |-> extractTotalPrice(booking)]
    /\ Frame({"calc"})

(* priceValue of the $set document the unified writer of revision b builds *)
WritePriceValue(b, booking) ==
    /\ calc = NoCall
    /\ calc' = [fn |-> "priceValue", input |-> booking,
                output |-> unifiedSet(b, booking, TRUE, now).priceValue]
    /\ Frame({"calc"})

(* Names a remote record can carry: none, blank, placeholders in several   *)
(* spellings, and real names                                               *)
GuestNames ==
    {Null, "   ", "adult_0", " Adult_7 ", "GUEST", " Hóspede ",
     " Maria Silva ", "Ana Souza"}

MaxGuests == 2

GuestLists ==
    UNION {[1..n -> [name : GuestNames, primary : BOOLEAN]] : n \in 0..MaxGuests}

GuestsDetails ==
    {NoGuestsDetails} \cup [present : {TRUE}, name : GuestNames, list : GuestLists]

(* One call of extractGuestName *)
ExtractGuestName(gd) ==
    /\ calc = NoCall
    /\ calc' = [fn |-> "extractGuestName", input |-> gd,
                output |-> extractGuestName([guestsDetails |-> gd])]
    /\ Frame({"calc"})

CalcNext ==
    \/ \E price \in PriceObjects, paid \in PaidAmounts :
          ExtractTotalPrice(PricedBooking(price, paid))
    \/ \E gd \in GuestsDetails : ExtractGuestName(gd)
    \/ \E b \in Builds, price \in PriceObjects, paid \in PaidAmounts :
          WritePriceValue(b, PricedBooking(price, paid))

SpecCalc == Init /\ [][CalcNext]_vars

(* The strategies of the price resolution in their order, each the amount   *)
(* it yields (NoNum when its fields are absent)                             *)
PriceStrategies(booking) ==
    LET p == booking.price
        Amount(x) == IF x = NoNum THEN 0 ELSE x
    IN  <<p._f_total,
          booking.stats._f_totalPaid,
          IF p.hosting_f_total > 0 THEN p.hosting_f_total + Amount(p.extras_f_total)
          ELSE NoNum,
          p._f_expected,
          p.value,
          IF p.present THEN Amount(p.value) + Amount(p.cleaning) + Amount(p.extras)
          ELSE NoNum>>

FirstUsable(amounts) ==
    IF \E i \in 1..Len(amounts) : amounts[i] > 0
    THEN amounts[CHOOSE i \in 1..Len(amounts) :
                    amounts[i] > 0 /\ \A j \in 1..(i - 1) : ~(amounts[j] > 0)]
    ELSE NoNum

(* C13: extractTotalPrice returns the value of the first strategy, in the   *)
(* order fee-inclusive total, paid-to-date total, hosting + extras          *)
(* subtotals, pre-fee expected total, legacy flat value, legacy component   *)
(* sum, that yields a usable (> 0) value, and nothing (null) when none does *)
C13_FirstUsableStrategy ==
    calc.fn = "extractTotalPrice" =>
       calc.output = FirstUsable(PriceStrategies(calc.input))

(* C14: the resolved price stored as priceValue is null or a number         *)
(* strictly greater than 0, never 0.                                        *)
C14_PriceValueNullOrPositive ==
    calc.fn = "priceValue" => (calc.output = NoNum \/ calc.output > 0)

-----------------------------------------------------------------------------
(* Aggregation over the mirror (SpecQuery): the unified collection is drawn *)
(* from the documents the current writer produces for a few reservations,   *)
(* and each behaviour is one query.  Dates are 'yyyy-MM-dd' strings of one  *)
(* compared as strings by the code; they are kept as day numbers, which    *)
(* have the same order.                                                    *)

StayIntervals == {<<10, 15>>, <<15, 18>>, <<16, 17>>}
QueryWindows == {<<14, 20>>, <<16, 20>>, <<10, 12>>}

(* The remote reservation behind a document of the mirror *)
StayBooking(id, type, listing, interval, total) ==
    [BookingDetail("r1") EXCEPT
        !._id = id, !.type = type, !._idlisting = listing,
        !.checkInDate = interval[1], !.checkOutDate = interval[2],
        !.stats.nights = interval[2] - interval[1],
        !.price = IF total = NoNum THEN NoPrice
                  ELSE [NoPrice EXCEPT !.present = TRUE, !._f_total = total,
                                       !.currency = "BRL"]]

(* The document the unified writer inserts for it *)
StayDocument(booking) ==
    unifiedSet("current", booking, TRUE, 0) @@ setOnInsert(0) @@ [_id |-> booking._id]

(* The documents a reservation id can have in the mirror *)
StayDocuments(id) ==
    {StayDocument(StayBooking(id, type, listing, interval, total)) :
        type \in {"normal", "blocked"}, listing \in ListingIds,
        interval \in StayIntervals, total \in {NoNum, 900}}

QueryMirrors ==
    {{}} \cup {{d} : d \in StayDocuments("m1")}
         \cup {{d, e} : d \in StayDocuments("m1"), e \in StayDocuments("m2")}

QueryInit ==
    /\ build = "current"
    /\ now = 0
    /\ syncStatus = {}
    /\ propertySyncStatus = {}
    /\ listings = {}
    /\ reservations = {}
    /\ unifiedBookings \in QueryMirrors
    /\ properties = {}
    /\ proc = [p \in Procs |-> FreshLocals(IF p \in InitProcs THEN "start" ELSE "idle")]
    /\ hist = NoHist
    /\ calc = NoCall

(* A variant of the window filter that asks for the stay to lie inside *)
ContainedInWindow(d, from, to) == d.checkInDate >= from /\ d.checkOutDate <= to

(* find({checkOutDate: {$gte: from}, checkInDate: {$lte: to}}) *)
OverlapsWindow(d, from, to) == d.checkOutDate >= from /\ d.checkInDate <= to

(* FinancialsService.getBookingsForPeriod *)
getBookingsForPeriod(coll, from, to, includeBlocked) ==
    {d \in coll : /\ OverlapsWindow(d, from, to)
                  /\ includeBlocked \/ d.type # "blocked"}

(* StatisticsService.getAllBookingsForPeriod *)
getAllBookingsForPeriod(coll, from, to) ==
    {d \in coll : OverlapsWindow(d, from, to)}

(* DashboardService.getUnifiedBookings *)
getUnifiedBookings(coll, from, to) ==
    {d \in coll : OverlapsWindow(d, from, to) /\ d.type # "blocked"}

(* getAllListings: $group by listingId over the whole collection *)
getAllListings(coll) == {d.listingId : d \in coll}

(* bookings.forEach(b => total += b[field] || 0) *)
RECURSIVE SumField(_, _)
SumField(docs, field) ==
    IF docs = {} THEN 0
    ELSE LET d == CHOOSE x \in docs : TRUE
         IN  OrNum(d[field], 0) + SumField(docs \ {d}, field)

(* Math.round(n / d * scale) as an integer number of 1/scale units *)
RoundedRatio(n, d, scale) == (2 * n * scale + d) \div (2 * d)

(* A variant of the summary that counts every booking of the window *)
getFinancialSummaryCountingBlocked(coll, from, to) ==
    LET counted == getAllBookingsForPeriod(coll, from, to)
        totalAvailableNights == Cardinality(getAllListings(coll)) * (to - from + 1)
        totalRevenue == SumField(counted, "priceValue")
        totalNights == SumField(counted, "nights")
    IN  [totalRevenue |-> totalRevenue,
         totalNights |-> totalNights,
         reservationsCount |-> Cardinality(counted),
         availableNights |-> totalAvailableNights,
         averageDailyRate |-> IF totalNights > 0
                              THEN RoundedRatio(totalRevenue, totalNights, 100) ELSE 0,
         occupancyRate |-> IF totalAvailableNights > 0
                           THEN RoundedRatio(totalNights * 100, totalAvailableNights, 10)
                           ELSE 0,
         revPAR |-> IF totalAvailableNights > 0
                    THEN RoundedRatio(totalRevenue, totalAvailableNights, 100) ELSE 0]

(* FinancialsService.getFinancialSummary; averageDailyRate and revPAR in    *)
(* hundredths, occupancyRate in tenths of a percent                        *)
getFinancialSummary(coll, from, to) ==
    LET bookings == getBookingsForPeriod(coll, from, to, FALSE)
        periodDays == to - from + 1
        totalAvailableNights == Cardinality(getAllListings(coll)) * periodDays
        counted == {b \in bookings : b.type # "blocked"}
        totalRevenue == SumField(counted, "priceValue")
        totalNights == SumField(counted, "nights")
    IN  [totalRevenue |-> totalRevenue,
         totalNights |-> totalNights,
         reservationsCount |-> Cardinality(counted),
         availableNights |-> totalAvailableNights,
         averageDailyRate |-> IF totalNights > 0
                              THEN RoundedRatio(totalRevenue, totalNights, 100) ELSE 0,
         occupancyRate |-> IF totalAvailableNights > 0
                           THEN RoundedRatio(totalNights * 100, totalAvailableNights, 10)
                           ELSE 0,
         revPAR |-> IF totalAvailableNights > 0
                    THEN RoundedRatio(totalRevenue, totalAvailableNights, 100) ELSE 0]

GetFinancialSummary(from, to) ==
    /\ calc = NoCall
    /\ calc' = [fn |-> "getFinancialSummary", from |-> from, to |-> to,
                output |-> getFinancialSummary(unifiedBookings, from, to)]
    /\ Frame({"calc"})

(* The three window queries of the services, on the same window *)
QueryPeriod(from, to) ==
    /\ calc = NoCall
    /\ calc' = [fn |-> "queryPeriod", from |-> from, to |-> to,
                output |-> [financialsAll |->
                                getBookingsForPeriod(unifiedBookings, from, to, TRUE),
                            financials |->
                                getBookingsForPeriod(unifiedBookings, from, to, FALSE),
                            statistics |->
                                getAllBookingsForPeriod(unifiedBookings, from, to),
                            dashboard |-> getUnifiedBookings(unifiedBookings, from, to)]]
    /\ Frame({"calc"})

(* The days on which the dashboard is asked for *)
Todays == {12, 15, 16}

(* The dashboard looks 30 days back and 30 days ahead *)
DashboardDays == 30

(* new Set(bookings.filter(b => b.checkInDate <= day && b.checkOutDate >=   *)
(* day).map(b => b.listingId))                                             *)
OccupiedOnDay(bookings, day) ==
    {b.listingId : b \in {x \in bookings : x.checkInDate <= day /\ x.checkOutDate >= day}}

(* DashboardService.getDashboardData, its occupancy figures; the trend's    *)
(* rate is in tenths of a percent                                          *)
getDashboardData(coll, today) ==
    LET past30 == today - DashboardDays
        future30 == today + DashboardDays
        allBookings == getUnifiedBookings(coll, past30, future30)
        totalUnits == Cardinality({b.listingId : b \in allBookings})
        occupiedListingIds == OccupiedOnDay(allBookings, today)
        occupiedToday == Cardinality(occupiedListingIds)
        next30Bookings == {b \in allBookings :
                              b.checkInDate <= future30 /\ b.checkOutDate >= today}
        occupiedUnitDays ==
            Cardinality({<<i, l>> \in (0..(DashboardDays - 1)) \X ListingIds :
                            l \in OccupiedOnDay(next30Bookings, today + i)})
        totalUnitDays == totalUnits * DashboardDays
        past30Bookings == {b \in allBookings :
                              b.checkOutDate >= past30 /\ b.checkInDate <= today}
    IN  [occupancyStats |-> [available |-> totalUnits - occupiedToday,
                             occupied |-> occupiedToday,
                             total |-> totalUnits],
         occupancyNext30Days |-> [available |-> totalUnitDays - occupiedUnitDays,
                                  occupied |-> occupiedUnitDays,
                                  total |-> totalUnitDays],
         occupancyTrend |->
             [day \in (today - DashboardDays)..today |->
                 IF totalUnits > 0
                 THEN RoundedRatio(
                          Cardinality(OccupiedOnDay(past30Bookings, day)) * 100,
                          totalUnits, 10)
                 ELSE 0],
         occupiedListingIds |-> occupiedListingIds]

(* One call of getDashboardData on the day today *)
GetDashboardData(today) ==
    /\ calc = NoCall
    /\ calc' = [fn |-> "getDashboardData", today |-> today,
                output |-> getDashboardData(unifiedBookings, today)]
    /\ Frame({"calc"})

QueryNext ==
    \/ \E w \in QueryWindows : GetFinancialSummary(w[1], w[2])
    \/ \E today \in Todays : GetDashboardData(today)
    \/ \E w \in QueryWindows : QueryPeriod(w[1], w[2])

SpecQuery == QueryInit /\ [][QueryNext]_vars

(* The mirror with every unresolved price replaced by 0 *)
ZeroPriced(coll) ==
    {IF d.priceValue = NoNum THEN [d EXCEPT !.priceValue = 0] ELSE d : d \in coll}

(* C15: getFinancialSummary treats a non-blocked booking of the window      *)
(* whose priceValue is null as price unknown: its result is not the one it  *)
(* gives when that booking's price is 0.                                    *)
C15_NullPriceNotCountedAsZero ==
    (/\ calc.fn = "getFinancialSummary"
     /\ \E d \in getBookingsForPeriod(unifiedBookings, calc.from, calc.to, FALSE) :
           d.priceValue = NoNum)
       => calc.output # getFinancialSummary(ZeroPriced(unifiedBookings), calc.from, calc.to)

NotBlocked(docs) == {d \in docs : d.type # "blocked"}

(* C17: every window query selects exactly the records with checkOutDate   *)
(* >= from and checkInDate <= to, before its type filter; a booking 10..15  *)
(* is selected for the window 14..20 and not for the window 16..20.         *)
C17_OneOverlapPredicate ==
    calc.fn = "queryPeriod" =>
       LET selected == {d \in unifiedBookings :
                           d.checkOutDate >= calc.from /\ d.checkInDate <= calc.to}
       IN  /\ calc.output.financialsAll = selected
           /\ calc.output.statistics = selected
           /\ calc.output.financials = NotBlocked(selected)
           /\ calc.output.dashboard = NotBlocked(selected)
           /\ \A d \in unifiedBookings :
                 (d.checkInDate = 10 /\ d.checkOutDate = 15) =>
                    /\ (calc.from = 14 /\ calc.to = 20) => d \in calc.output.statistics
                    /\ (calc.from = 16 /\ calc.to = 20) => d \notin calc.output.statistics

(* The window 14..20 asked of a mirror holding a booking 10..15 *)
C17_WindowMeetsCheckoutSide ==
    /\ calc.fn = "queryPeriod"
    /\ calc.from = 14
    /\ \E d \in calc.output.statistics : d.checkInDate = 10 /\ d.checkOutDate = 15

(* C19: bookings of type 'blocked' contribute nothing to totalRevenue,      *)
(* totalNights or reservationsCount of the financial summary: the three     *)
(* figures are those of the mirror without its blocked bookings, and a      *)
(* normal booking priced 900 with a blocked booking on the same listing     *)
(* give totalRevenue 900 and reservationsCount 1.                           *)
C19_BlockedOutsideFinancials ==
    calc.fn = "getFinancialSummary" =>
       LET without == getFinancialSummary(NotBlocked(unifiedBookings), calc.from, calc.to)
           inWindow == getAllBookingsForPeriod(unifiedBookings, calc.from, calc.to)
       IN  /\ calc.output.totalRevenue = without.totalRevenue
           /\ calc.output.totalNights = without.totalNights
           /\ calc.output.reservationsCount = without.reservationsCount
           /\ (\E d, e \in inWindow :
                  /\ inWindow = {d, e}
                  /\ d.type = "normal" /\ d.priceValue = 900
                  /\ e.type = "blocked" /\ e.listingId = d.listingId)
                 => /\ calc.output.totalRevenue = 900
                    /\ calc.output.reservationsCount = 1

(* The summary of a window holding a normal booking priced 900 and a        *)
(* blocked booking, itself priced, on the same listing                      *)
C19_NormalAndBlockedOnOneListing ==
    /\ calc.fn = "getFinancialSummary"
    /\ \E d, e \in getAllBookingsForPeriod(unifiedBookings, calc.from, calc.to) :
          /\ d.type = "normal" /\ d.priceValue = 900
          /\ e.type = "blocked" /\ e.priceValue = 900 /\ e.listingId = d.listingId
    /\ calc.output.totalRevenue = 900

(* What each name of GuestNames is to a reader: the text it shows once the  *)
(* surrounding whitespace is dropped, and whether that text is a placeholder *)
Shown(name) ==
    CASE name = " Adult_7 " -> "Adult_7"
      [] name = " Hóspede " -> "Hóspede"
      [] name = " Maria Silva " -> "Maria Silva"
      [] name = "   " -> ""
      [] OTHER -> name

Passes(name) == name \in {" Maria Silva ", "Ana Souza"}

(* C16: extractGuestName returns the trimmed guestsDetails.name if it       *)
(* passes the placeholder filter, else the name of the guest flagged        *)
(* primary if it passes, else the first name of the list that passes, else  *)
(* 'Hóspede'; no placeholder of the record is returned, whatever its case   *)
(* and surrounding whitespace, and 'Maria Silva' is returned trimmed.       *)
C16_GuestNameByPreference ==
    calc.fn = "extractGuestName" =>
       LET gd == calc.input
           list == gd.list
           flagged == {i \in 1..Len(list) : list[i].primary}
           passing == {i \in 1..Len(list) : Passes(list[i].name)}
           First(S) == CHOOSE i \in S : \A j \in S : i <= j
       IN  /\ calc.output =
                 IF Passes(gd.name) THEN Shown(gd.name)
                 ELSE IF flagged # {} /\ Passes(list[First(flagged)].name)
                      THEN Shown(list[First(flagged)].name)
                 ELSE IF passing # {} THEN Shown(list[First(passing)].name)
                 ELSE "Hóspede"
           /\ (calc.output \notin {"Maria Silva", "Ana Souza"}) =>
                 (~Passes(gd.name) /\ passing = {} /\ calc.output = "Hóspede")
           /\ gd.name = " Maria Silva " => calc.output = "Maria Silva"

(* A call whose guestsDetails.name and primary guest are placeholders in    *)
(* other spellings and whose second guest has a real name                   *)
C16_PlaceholdersSkippedToRealName ==
    /\ calc.fn = "extractGuestName"
    /\ calc.input.name = " Adult_7 "
    /\ Len(calc.input.list) = 2
    /\ calc.input.list[1] = [name |-> "GUEST", primary |-> TRUE]
    /\ calc.input.list[2].name = " Maria Silva "
    /\ calc.output = "Maria Silva"

(* The listings a booking of the set occupies on a day when a stay holds    *)
(* its listing from the check-in day up to, not including, the checkout day *)
HeldOnDay(bookings, day) ==
    {b.listingId : b \in {x \in bookings : x.checkInDate <= day /\ day < x.checkOutDate}}

(* C18: in the per-day occupancy of the dashboard (today's stats, the next  *)
(* 30 days, the trend) a booking occupies its listing on day d only when    *)
(* checkIn <= d < checkOut; the checkout day is not counted.                *)
C18_CheckoutDayNotOccupied ==
    calc.fn = "getDashboardData" =>
       LET stays == NotBlocked(unifiedBookings)
           units == Cardinality({b.listingId : b \in stays})
       IN  /\ calc.output.occupancyStats.occupied
                 = Cardinality(HeldOnDay(stays, calc.today))
           /\ calc.output.occupancyNext30Days.occupied
                 = Cardinality({<<i, l>> \in (0..(DashboardDays - 1)) \X ListingIds :
                                   l \in HeldOnDay(stays, calc.today + i)})
           /\ \A day \in DOMAIN calc.output.occupancyTrend :
                 calc.output.occupancyTrend[day]
                    = IF units > 0
                      THEN RoundedRatio(Cardinality(HeldOnDay(stays, day)) * 100,
                                        units, 10)
                      ELSE 0

(* C20: a blocked booking whose interval covers the day the dashboard is    *)
(* asked for makes its listing count as occupied on that day.               *)
C20_BlockedBookingOccupies ==
    calc.fn = "getDashboardData" =>
       \A b \in unifiedBookings :
          (b.type = "blocked" /\ b.checkInDate <= calc.today
              /\ calc.today < b.checkOutDate)
            => /\ b.listingId \in calc.output.occupiedListingIds
               /\ calc.output.occupancyStats.occupied >= 1

-----------------------------------------------------------------------------
(* Pagination of the remote lists (SpecPaging): calc holds the locals of    *)
(* the one getAll... call of a behaviour; a page is kept as the offset it   *)
(* was asked at and the number of records the remote returned for it.       *)

(* const limit = 20 *)
PageLimit == 20
(* if (skip > 1000) break, and the like *)
BookingsCeiling == 1000
ListingsCeiling == 500
ClientsCeiling == 2000

Pagers == {"getAllBookings", "getAllListings", "getAllEnhancedListings", "getAllClients"}

Ceiling(fn) ==
    CASE fn = "getAllBookings" -> BookingsCeiling
      [] fn = "getAllClients" -> ClientsCeiling
      [] OTHER -> ListingsCeiling

(* let skip = 0; let hasMore = true; const all = [] *)
StartPaging(fn) ==
    /\ calc = NoCall
    /\ calc' = [fn |-> fn, skip |-> 0, hasMore |-> TRUE, pages |-> << >>,
                count |-> 0, returned |-> FALSE]
    /\ Frame({"calc"})

(* A variant of the loop body that goes on until a page comes back empty *)
NextPageUntilEmpty(c, n) ==
    LET skip == c.skip + PageLimit
    IN  [c EXCEPT !.pages = Append(@, [skip |-> c.skip, length |-> n]),
                  !.count = @ + n,
                  !.hasMore = (n > 0),
                  !.skip = skip,
                  !.returned = (skip > Ceiling(c.fn)) \/ ~(n > 0)]

(* One iteration of while (hasMore): the page of n records is pushed,       *)
(* hasMore = page.length === limit, skip += limit, break above the ceiling; *)
(* the function returns when the loop is left                               *)
NextPage(c, n) ==
    LET skip == c.skip + PageLimit
    IN  [c EXCEPT !.pages = Append(@, [skip |-> c.skip, length |-> n]),
                  !.count = @ + n,
                  !.hasMore = (n = PageLimit),
                  !.skip = skip,
                  !.returned = (skip > Ceiling(c.fn)) \/ ~(n = PageLimit)]

FetchPage(n) ==
    /\ calc.fn \in Pagers
    /\ ~calc.returned
    /\ calc.hasMore
    /\ calc' = NextPage(calc, n)
    /\ Frame({"calc"})

PagingNext ==
    \/ \E fn \in Pagers : StartPaging(fn)
    \/ \E n \in {0, 7, PageLimit} : FetchPage(n)

SpecPaging == Init /\ [][PagingNext]_vars

RECURSIVE TotalLength(_)
TotalLength(pages) ==
    IF pages = << >> THEN 0 ELSE pages[1].length + TotalLength(Tail(pages))

(* C25: a getAll... call asks for pages at offsets 0, 20, 40, ... in        *)
(* increasing order, stops after the first page of fewer than 20 records,   *)
(* makes a bounded number of requests even when every page is full, and     *)
(* returns the received pages concatenated in request order.                *)
C25_PagesInOrderUntilShortPage ==
    calc.fn \in Pagers =>
       LET pages == calc.pages
           n == Len(pages)
       IN  /\ \A k \in 1..n : pages[k].skip = (k - 1) * PageLimit
           /\ \A k \in 1..(n - 1) : pages[k].length = PageLimit
           /\ (n > 0 /\ pages[n].length < PageLimit) => calc.returned
           /\ calc.returned =>
                 (pages[n].length < PageLimit \/ calc.skip > Ceiling(calc.fn))
           /\ n <= Ceiling(calc.fn) \div PageLimit + 1
           /\ calc.count = TotalLength(pages)

(* getAllBookings has returned after two full pages and a page of 7 *)
C25_ReturnedAtShortThirdPage ==
    /\ calc.fn = "getAllBookings"
    /\ calc.returned
    /\ Len(calc.pages) = 3
    /\ calc.pages[3] = [skip |-> 40, length |-> 7]
    /\ calc.count = 47

(* C26: one call of getAllBookings never returns more than 1000 bookings,   *)
(* one call of getAllListings / getAllEnhancedListings never more than 500  *)
(* listings, one call of getAllClients never more than 2000 clients.        *)
C26_ResultWithinCeiling ==
    (calc.fn \in Pagers /\ calc.returned) => calc.count <= Ceiling(calc.fn)

-----------------------------------------------------------------------------
(* The detail-fetch queues (SpecQueue): calc holds the PQueue of the one    *)
(* fetch of a behaviour, its tasks counted rather than named: size tasks    *)
(* wait, pending tasks have their request in flight, settled tasks are      *)
(* over.  PQueue starts an added task at once while fewer than concurrency  *)
(* are running and queues it otherwise; when a task ends it lowers pending, *)
(* starts the first waiting task, then emits 'next' to its listeners, whose *)
(* return values the emitter drops.                                         *)

MaxTasks == 22

QueueUsers == {"fetchBookingDetails", "fetchListingDetails", "enrichBookingsWithClientData"}

(* BOOKING_DETAILS_CONCURRENCY, LISTING_DETAILS_CONCURRENCY of the revision, *)
(* CLIENT_FETCH_CONCURRENCY                                                  *)
Concurrency(b, fn) ==
    CASE fn = "enrichBookingsWithClientData" -> 5
      [] b = "legacy" -> 10
      [] OTHER -> 20

(* A variant of the queue that starts every task it is given *)
AddAllWithoutLimit(q, n) == [q EXCEPT !.pending = n, !.size = 0]

(* items.map(item => queue.add(task)): the first concurrency tasks start,   *)
(* the others wait                                                          *)
AddAll(q, n) ==
    LET started == IF n < q.concurrency THEN n ELSE q.concurrency
    IN  [q EXCEPT !.pending = started, !.size = n - started]

(* new PQueue({concurrency}), the adds, queue.on('next', ...) *)
StartQueue(fn, n) ==
    /\ calc = NoCall
    /\ calc' = AddAll([fn |-> fn, concurrency |-> Concurrency(build, fn), total |-> n,
                       pending |-> 0, size |-> 0, settled |-> 0, timers |-> 0,
                       lastSettled |-> NoNum, joined |-> FALSE], n)
    /\ Frame({"calc"})

(* The request of one running task returns or throws at time t: the task's  *)
(* own try/catch ends it, the queue starts the first waiting task, and the  *)
(* 'next' listener makes its timer promise when it finds pending === 0 and  *)
(* size > 0; Promise.all resolves once nothing runs and nothing waits       *)
TaskSettled(q, t) ==
    LET refill == q.size > 0
        pending == IF refill THEN q.pending ELSE q.pending - 1
        size == IF refill THEN q.size - 1 ELSE q.size
    IN  [q EXCEPT !.pending = pending,
                  !.size = size,
                  !.settled = @ + 1,
                  !.timers = IF pending = 0 /\ size > 0 THEN @ + 1 ELSE @,
                  !.lastSettled = t,
                  !.joined = (pending = 0 /\ size = 0)]

TaskSettles ==
    /\ calc.fn \in QueueUsers
    /\ calc.pending > 0
    /\ calc' = TaskSettled(calc, now)
    /\ Frame({"calc"})

QueueNext ==
    \/ \E fn \in QueueUsers, n \in 1..MaxTasks : StartQueue(fn, n)
    \/ TaskSettles
    \/ TimePasses

SpecQueue == MirrorInit /\ [][QueueNext]_vars

(* C23: at no time are more booking-detail requests, or more listing-detail *)
(* requests, in flight than the configured concurrency limit (20); tasks    *)
(* beyond the limit wait in the queue until a running task finishes.        *)
C23_InFlightWithinConcurrency ==
    calc.fn \in {"fetchBookingDetails", "fetchListingDetails"} =>
       /\ calc.pending <= calc.concurrency
       /\ calc.concurrency <= 20
       /\ build = "current" => calc.concurrency = 20
       /\ calc.size > 0 => calc.pending = calc.concurrency
       /\ calc.pending + calc.size + calc.settled = calc.total
       /\ calc.joined <=> calc.settled = calc.total

(* Twenty booking-detail requests in flight, one task over, one waiting *)
C23_LimitReachedWithTaskWaiting ==
    /\ build = "current"
    /\ calc.fn = "fetchBookingDetails"
    /\ calc.pending = 20
    /\ calc.settled = 1
    /\ calc.size = 1

(* C24: between one batch draining (no task in flight, tasks still queued)  *)
(* and the next batch starting the queue waits the fixed delay: a queued    *)
(* task is started only with no task in flight and once the delay, one tick *)
(* of the clock, has passed since the last task ended.                      *)
C24_QueuedTaskWaitsDelay ==
    [][(calc.fn \in QueueUsers /\ calc'.fn = calc.fn /\ calc'.size < calc.size)
          => /\ calc.pending = 0
             /\ now >= calc.lastSettled + 1]_vars

-----------------------------------------------------------------------------
(* What later runs leave of earlier ones (checked under SpecPipeline) *)

(* C27: a run that ends in success writes nothing to lastError: the         *)
(* lastError of an earlier failed run is unchanged by the success write,    *)
(* lastError changes only on a step into 'error', and the record can hold   *)
(* status 'success' with a non-null lastError.                              *)
C27_SuccessKeepsLastError ==
    [][/\ \A p \in BookingProcs :
             UpdateSuccess(p, TRUE) =>
                /\ getSyncStatus(syncStatus').lastError
                      = getSyncStatus(syncStatus).lastError
                /\ syncStatus # {} =>
                      /\ Has(StatusDoc', "lastError") = Has(StatusDoc, "lastError")
                      /\ Has(StatusDoc, "lastError")
                            => StatusDoc'.lastError = StatusDoc.lastError
       /\ getSyncStatus(syncStatus').lastError # getSyncStatus(syncStatus).lastError
             => CurrentStatus' = "error"]_vars

(* The record of a successful run still carrying the message of the failed  *)
(* run before it                                                            *)
C27_SuccessWithStaleError ==
    /\ CurrentStatus = "success"
    /\ getSyncStatus(syncStatus).lastError # Null

(* C28: no sync run removes a document from the mirror: the set of          *)
(* reservation ids of the unified collection only grows, and the document   *)
(* of a reservation the run did not fetch is left as it was, still selected *)
(* by a window query over its dates.                                        *)
C28_MirrorNeverShrinks ==
    [][/\ IdsOf(unifiedBookings) \subseteq IdsOf(unifiedBookings')
       /\ \A p \in BookingProcs :
             proc[p].pc = "writeUnified" =>
                \A d \in unifiedBookings :
                   d._id \notin proc[p].bookings =>
                      /\ d \in unifiedBookings'
                      /\ d \in getAllBookingsForPeriod(unifiedBookings',
                                                       d.checkInDate, d.checkOutDate)]_vars

(* A run that fetched r1 alone has written the mirror, which still holds r2 *)
C28_VanishedReservationKept ==
    \E p \in BookingProcs :
       /\ proc[p].pc = "updateSuccess"
       /\ proc[p].bookings = {"r1"}
       /\ "r2" \in IdsOf(unifiedBookings)
       /\ "r1" \in IdsOf(unifiedBookings)

-----------------------------------------------------------------------------
(* Occupancy of the financial summary (checked under SpecQuery) *)

(* No two non-blocked bookings of one listing share a night *)
NoDoubleBooking(coll) ==
    \A d, e \in NotBlocked(coll) :
       (d # e /\ d.listingId = e.listingId)
          => (d.checkOutDate <= e.checkInDate \/ e.checkOutDate <= d.checkInDate)

(* C30: in getFinancialSummary totalNights never exceeds availableNights    *)
(* (occupancyRate never exceeds 100%) for every window and every mirror in  *)
(* which no two non-blocked bookings of the same listing overlap.           *)
C30_NightsWithinAvailable ==
    (calc.fn = "getFinancialSummary" /\ NoDoubleBooking(unifiedBookings))
       => /\ calc.output.totalNights <= calc.output.availableNights
          /\ calc.output.occupancyRate <= 1000

-----------------------------------------------------------------------------
(* Order of the stages of a run (checked under SpecPipeline) *)

(* A step of the run of p writes one of the three mirror collections *)
MirrorWrite(p) ==
    /\ InRun(p)
    /\ \/ listings' # listings
       \/ reservations' # reservations
       \/ unifiedBookings' # unifiedBookings

(* C21: within one run no mirror write is issued until every booking-detail *)
(* task and every listing-detail task has settled, and the listings write   *)
(* has completed before the unified-bookings write begins.                  *)
C21_WritesAfterTheBarrier ==
    [][\A p \in BookingProcs :
          /\ MirrorWrite(p) =>
                /\ DOMAIN proc[p].detailsMap = proc[p].bookings
                /\ proc[p].listingTried = uniqueListingIds(proc[p])
          /\ (proc[p].pc = "writeUnified" \/ proc'[p].pc = "writeUnified") =>
                /\ proc[p].listingsWritten # NoNum \/ proc'[p].listingsWritten # NoNum
                /\ proc[p].listingMap \subseteq IdsOf(listings)]_vars

(* A run over two bookings, one of whose item requests failed, has written  *)
(* its listings and its unified bookings                                    *)
C21_RunWroteAfterAllTasks ==
    \E p \in BookingProcs :
       /\ proc[p].pc = "updateSuccess"
       /\ proc[p].bookings = {"r1", "r2"}
       /\ proc[p].failed # {}
       /\ proc[p].listingMap # {}
       /\ IdsOf(unifiedBookings) = {"r1", "r2"}

(* The run of p, which wrote 'running', returns or rejects at this step *)
RunEnds(p) ==
    /\ InRun(p)
    /\ ~InRun(p)'
    /\ hist'.exited = hist.exited
    /\ \/ proc[p].pc = "updateSuccess"
       \/ proc[p].pc = "catch" /\ proc[p].thrownAt # "updateRunning"

(* C22: syncStaysData never finishes while leaving the status at 'running': *)
(* a run that has set 'running' and whose calls all return or throw has     *)
(* recorded 'success' or 'error' when it ends.                              *)
C22_RunEndsRecorded ==
    [][\A p \in BookingProcs :
          RunEnds(p) => CurrentStatus' \in {"success", "error"}]_vars

-----------------------------------------------------------------------------
(* Enrichment over repeated cycles (checked under SpecMirror) *)

(* Enrichment has written the demographics of the booking *)
Enriched(d) ==
    /\ Field(d, "clientId", Null) # Null
    /\ Has(d, "enrichedAt")
    /\ ~NeedsEnrichment(d)

(* C29: under repeated cycles of sync and enrichment, a unified booking     *)
(* with a clientId whose demographics have been written is from then on no  *)
(* longer selected by the enrichment query (clientId != null and            *)
(* guestCountry == null).                                                   *)
C29_EnrichedNeverSelectedAgain ==
    [][\A d \in unifiedBookings :
          Enriched(d) =>
             \A e \in unifiedBookings' : e._id = d._id => ~NeedsEnrichment(e)]_vars

====
